---------------------------- MODULE Spec2Model ----------------------------
(***************************************************************************)
(* Model of the bookshelf application (Anav0/bookshelf): the reducer       *)
(* BookshelfApp::update with its book/author handlers, the sort engine     *)
(* sort_books, the persistence operations of db.rs and the asynchronous    *)
(* tasks that connect them.                                                *)
(*                                                                         *)
(* Conventions                                                             *)
(*   - a Rust String is a sequence of character codes (ASCII);             *)
(*   - Option<T> is a sequence of length 0 (None) or 1 (Some(v));          *)
(*   - Result<T, String> is a record [ok |-> TRUE, val |-> v] or           *)
(*     [ok |-> FALSE, err |-> e];                                          *)
(*   - an f32 price is an integer number of hundredths (41.99 is 4199);    *)
(*     NaN and infinities are not modelled;                                *)
(*   - a NaiveDateTime is the tuple <<year, month, day, hour, min, sec>>.  *)
(***************************************************************************)
EXTENDS Integers, Sequences, FiniteSets, TLC

VARIABLES
    app,      \* the BookshelfApp struct (ui/state.rs)
    pool,     \* db.rs DB_POOL: TRUE once initialize_pool has stored a pool
    db,       \* the store: [books |-> rows, authors |-> rows], in rowid order
    tasks,    \* the iced tasks in flight, in the order they were issued
    last,     \* history: the message update() handled last and the tasks it issued
    fn_in,    \* harness of the pure functions: the arguments drawn by Init
    fn_out    \* harness of the pure functions: None, or Some(result)

vars == <<app, pool, db, tasks, last, fn_in, fn_out>>

\* ------------------------------------------------------------ bounds
\* Longest collection handed to sort_books, and longest list searched.
MaxLen == 3

\* ------------------------------------------------------------ Option, Result
None == <<>>
Some(v) == <<v>>
IsSome(o) == o # <<>>
Unwrap(o) == o[1]
UnwrapOr(o, d) == IF o = <<>> THEN d ELSE o[1]

Ok(v) == [ok |-> TRUE, val |-> v]
Err(e) == [ok |-> FALSE, err |-> e]

\* ------------------------------------------------------------ strings
\* char::to_lowercase on ASCII: 'A'..'Z' (65..90) map to 'a'..'z'.
to_lowercase(s) == [i \in 1..Len(s) |-> IF s[i] >= 65 /\ s[i] <= 90 THEN s[i] + 32 ELSE s[i]]

\* std::cmp::Ordering::reverse
reverse_ordering(o) ==
    CASE o = "Less" -> "Greater"
      [] o = "Greater" -> "Less"
      [] OTHER -> "Equal"

\* Ord for integers (i32, and f32 without NaN).
int_cmp(a, b) == IF a < b THEN "Less" ELSE IF a > b THEN "Greater" ELSE "Equal"

\* Ord for String and for tuples: lexicographic, a proper prefix is smaller.
seq_cmp(a, b) ==
    LET n == IF Len(a) < Len(b) THEN Len(a) ELSE Len(b)
        D == {i \in 1..n : a[i] # b[i]}
    IN  IF D # {}
        THEN LET i == CHOOSE k \in D : \A j \in D : k <= j
             IN  int_cmp(a[i], b[i])
        ELSE int_cmp(Len(a), Len(b))

\* str::contains
contains(s, pat) ==
    \E i \in 0..(Len(s) - Len(pat)) : \A j \in 1..Len(pat) : s[i + j] = pat[j]

\* str::starts_with
starts_with(s, pat) ==
    /\ Len(pat) <= Len(s)
    /\ \A j \in 1..Len(pat) : s[j] = pat[j]

Reverse(s) == [i \in 1..Len(s) |-> s[Len(s) + 1 - i]]

\* ------------------------------------------------------------ models.rs
AuthorModel(id, name) == [Id |-> id, Name |-> name]

BookModel(id, title, price, bought, finished, added, fk) ==
    [id |-> id, title |-> title, price |-> price, bought |-> bought,
     finished |-> finished, added |-> added, AuthorFK |-> fk]

BookWithAuthor(book, author) == [book |-> book, author |-> author]

\* ------------------------------------------------------------ ui/utils.rs
\* Mutant: under DateAdded a missing timestamp is the smallest key.
field_order_missing_first(a, b, field) ==
    CASE field = "Title" ->
            seq_cmp(to_lowercase(a.book.title), to_lowercase(b.book.title))
      [] field = "Author" ->
            LET a_author == IF IsSome(a.author) THEN UnwrapOr(Unwrap(a.author).Name, <<>>) ELSE <<>>
                b_author == IF IsSome(b.author) THEN UnwrapOr(Unwrap(b.author).Name, <<>>) ELSE <<>>
            IN  seq_cmp(to_lowercase(a_author), to_lowercase(b_author))
      [] field = "Price" ->
            int_cmp(UnwrapOr(a.book.price, 0), UnwrapOr(b.book.price, 0))
      [] field = "DateAdded" ->
            seq_cmp(UnwrapOr(a.book.added, <<>>), UnwrapOr(b.book.added, <<>>))

\* The key comparison of sort_books' closure, before the direction is applied.
field_order(a, b, field) ==
    CASE field = "Title" ->
            seq_cmp(to_lowercase(a.book.title), to_lowercase(b.book.title))
      [] field = "Author" ->
            LET a_author == IF IsSome(a.author) THEN UnwrapOr(Unwrap(a.author).Name, <<>>) ELSE <<>>
                b_author == IF IsSome(b.author) THEN UnwrapOr(Unwrap(b.author).Name, <<>>) ELSE <<>>
            IN  seq_cmp(to_lowercase(a_author), to_lowercase(b_author))
      [] field = "Price" ->
            int_cmp(UnwrapOr(a.book.price, 0), UnwrapOr(b.book.price, 0))
      [] field = "DateAdded" ->
            LET a_date == a.book.added
                b_date == b.book.added
            IN  CASE IsSome(a_date) /\ IsSome(b_date) -> seq_cmp(Unwrap(a_date), Unwrap(b_date))
                  [] IsSome(a_date) /\ ~IsSome(b_date) -> "Less"
                  [] ~IsSome(a_date) /\ IsSome(b_date) -> "Greater"
                  [] OTHER -> "Equal"

\* Mutant: Descending leaves the comparator as it is.
directed_ignoring_direction(order, direction) == order

\* match direction { Ascending => order, Descending => order.reverse() }
directed(order, direction) ==
    IF direction = "Descending" THEN reverse_ordering(order) ELSE order

\* The closure handed to sort_by.
compare_books(a, b, field, direction) == directed(field_order(a, b, field), direction)

\* Mutant: an unstable insertion, x goes before the records equal to it.
insert_before_equal(sorted, x, field, direction) ==
    LET before == {i \in 1..Len(sorted) : compare_books(sorted[i], x, field, direction) = "Less"}
        k == Cardinality(before)
    IN  SubSeq(sorted, 1, k) \o <<x>> \o SubSeq(sorted, k + 1, Len(sorted))

\* One step of the stable sort: x is placed after every record of the sorted
\* prefix that is not greater than it (slice::sort_by is stable).
insert_sorted(sorted, x, field, direction) ==
    LET notafter == {i \in 1..Len(sorted) : compare_books(sorted[i], x, field, direction) # "Greater"}
        k == Cardinality(notafter)
    IN  SubSeq(sorted, 1, k) \o <<x>> \o SubSeq(sorted, k + 1, Len(sorted))

\* Mutant: the vector is left in the order it came in.
sort_books_leaving_order(books, field, direction) == books

\* pub fn sort_books(books, field, direction): books.sort_by(closure), the
\* sorted vector
RECURSIVE sort_books(_, _, _)
sort_books(books, field, direction) ==
    IF books = <<>> THEN <<>>
    ELSE insert_sorted(sort_books(SubSeq(books, 1, Len(books) - 1), field, direction),
                       books[Len(books)], field, direction)


\* ------------------------------------------------------------ conversions
IsDigit(c) == c >= 48 /\ c <= 57

\* The value of a string of decimal digits.
RECURSIVE digits_value(_)
digits_value(s) ==
    IF s = <<>> THEN 0
    ELSE digits_value(SubSeq(s, 1, Len(s) - 1)) * 10 + (s[Len(s)] - 48)

\* The decimal digits of a natural number.
RECURSIVE nat_to_string(_)
nat_to_string(n) ==
    IF n < 10 THEN <<48 + n>>
    ELSE nat_to_string(n \div 10) \o <<48 + (n % 10)>>

\* Zero-padded to width w (chrono's %Y, %m, %d, %H, %M, %S).
RECURSIVE pad_left(_, _)
pad_left(s, w) == IF Len(s) >= w THEN s ELSE pad_left(<<48>> \o s, w)

\* f32::to_string of a non-negative price: the shortest decimal that reads
\* back as the same value ("5" for 5.00, "5.5" for 5.50, "41.99").
f32_to_string(v) ==
    LET ip == v \div 100
        fp == v % 100
    IN  nat_to_string(ip) \o
        (IF fp = 0 THEN <<>>
         ELSE IF fp % 10 = 0 THEN <<46, 48 + (fp \div 10)>>
         ELSE <<46, 48 + (fp \div 10), 48 + (fp % 10)>>)

\* str::parse::<f32>: Some(value) for Ok, None for Err.  Plain decimals with
\* at most two fraction digits are read ("5", "5.", ".5", "41.99"); the
\* inputs of the model hold no sign, exponent, "inf" or "nan".
parse_f32(s) ==
    LET dots == {i \in 1..Len(s) : s[i] = 46}
    IN  IF s = <<>> \/ (\E i \in 1..Len(s) : ~IsDigit(s[i]) /\ s[i] # 46) \/ Cardinality(dots) > 1
        THEN None
        ELSE IF dots = {} THEN Some(digits_value(s) * 100)
        ELSE LET d == CHOOSE i \in dots : TRUE
                 ip == SubSeq(s, 1, d - 1)
                 fp == SubSeq(s, d + 1, Len(s))
             IN  IF (ip = <<>> /\ fp = <<>>) \/ Len(fp) > 2 THEN None
                 ELSE Some(digits_value(ip) * 100 +
                           (IF Len(fp) = 1 THEN digits_value(fp) * 10 ELSE digits_value(fp)))

\* NaiveDateTime::format("%Y-%m-%d %H:%M:%S")
format_datetime(d) ==
    pad_left(nat_to_string(d[1]), 4) \o <<45>> \o pad_left(nat_to_string(d[2]), 2) \o <<45>> \o
    pad_left(nat_to_string(d[3]), 2) \o <<32>> \o pad_left(nat_to_string(d[4]), 2) \o <<58>> \o
    pad_left(nat_to_string(d[5]), 2) \o <<58>> \o pad_left(nat_to_string(d[6]), 2)

\* The closure parse_datetime of handle_save_book: the empty string and a
\* string that NaiveDateTime::parse_from_str(s, "%Y-%m-%d %H:%M:%S") rejects
\* both give None.  The fixed-width form YYYY-MM-DD HH:MM:SS is read.
parse_datetime(s) ==
    IF s = <<>> THEN None
    ELSE IF /\ Len(s) = 19
            /\ s[5] = 45 /\ s[8] = 45 /\ s[11] = 32 /\ s[14] = 58 /\ s[17] = 58
            /\ \A i \in (1..19) \ {5, 8, 11, 14, 17} : IsDigit(s[i])
         THEN LET d == <<digits_value(SubSeq(s, 1, 4)), digits_value(SubSeq(s, 6, 7)),
                         digits_value(SubSeq(s, 9, 10)), digits_value(SubSeq(s, 12, 13)),
                         digits_value(SubSeq(s, 15, 16)), digits_value(SubSeq(s, 18, 19))>>
              IN  IF d[2] >= 1 /\ d[2] <= 12 /\ d[3] >= 1 /\ d[3] <= 31 /\
                     d[4] <= 23 /\ d[5] <= 59 /\ d[6] <= 59
                  THEN Some(d) ELSE None
         ELSE None

\* ------------------------------------------------------------ ui/messages.rs
\* Mode
ModeView == <<"View">>
ModeViewDetails == <<"ViewDetails">>
ModeAdd == <<"Add">>
ModeEdit == <<"Edit">>
ModeConfirmDelete(id, name) == <<"ConfirmDelete", id, name>>

\* Message: a record with the variant's name and its payload.
\* A variant without payload.
Msg(kind) == [kind |-> kind]
\* A variant with its payload, a record of the fields it carries.
MsgWith(kind, payload) == [kind |-> kind] @@ payload

\* ------------------------------------------------------------ tasks
\* iced::Task::perform(future, to_message): the persistence call the future
\* makes and its arguments, captured when the task is built.
TaskGetBooks == [op |-> "get_books"]
TaskGetAuthors == [op |-> "get_authors"]
TaskGetBooksByAuthor(id) == [op |-> "get_books_by_author", id |-> id]
TaskCreateBook(nb) == [op |-> "create_book", new_book |-> nb]
TaskUpdateBook(id, nb) == [op |-> "update_book", id |-> id, new_book |-> nb]
TaskDeleteBook(id) == [op |-> "delete_book", id |-> id]
TaskCreateAuthor(na) == [op |-> "create_author", new_author |-> na]
TaskUpdateAuthor(id, na) == [op |-> "update_author", id |-> id, new_author |-> na]
TaskDeleteAuthor(id) == [op |-> "delete_author", id |-> id]
\* Task::perform(async {}, |_| message): no persistence call, only a message.
TaskEmit(m) == [op |-> "emit", msg |-> m]

\* What one call of update() yields: the new struct, the tasks of the returned
\* iced::Task (Task::none() is the empty sequence, Task::batch concatenates)
\* and the DB_POOL flag.
Ret(s, cmds, p) == [app |-> s, cmds |-> cmds, pool |-> p]

\* ------------------------------------------------------------ ui/components/searchable_dropdown.rs
dropdown_new(options, selected) ==
    [options |-> options, selected |-> selected, search_term |-> <<>>, is_open |-> FALSE]

\* Mutant: toggle flips the flag and leaves the search term.
dropdown_toggle_keeping_term(d) == [d EXCEPT !.is_open = ~d.is_open]

dropdown_toggle(d) ==
    LET open == ~d.is_open
    IN  [d EXCEPT !.is_open = open,
                  !.search_term = IF ~open THEN <<>> ELSE d.search_term]

\* Mutant: close() keeps the search term.
dropdown_close_keeping_term(d) == [d EXCEPT !.is_open = FALSE]

dropdown_close(d) == [d EXCEPT !.is_open = FALSE, !.search_term = <<>>]

\* Mutant: a search also drops the selection.
dropdown_search_dropping_selection(d, term) == [d EXCEPT !.search_term = term, !.selected = None]

dropdown_search(d, term) == [d EXCEPT !.search_term = term]

\* Mutant: select stores the item and leaves the widget as it is.
dropdown_select_staying_open(d, item) == [d EXCEPT !.selected = Some(item)]

dropdown_select(d, item) == dropdown_close([d EXCEPT !.selected = Some(item)])

\* ------------------------------------------------------------ ui/state.rs
\* BookshelfApp::new().  The struct of state.rs names the edited book
\* selected_book; the handlers of book_view.rs read and write current_book,
\* which is the name kept here.
new_app ==
    [current_tab |-> "Books",
     mode |-> ModeView,
     sort_field |-> "Title",
     sort_direction |-> "Ascending",
     search_query |-> <<>>,
     search_term_displayed |-> <<>>,
     is_searching |-> FALSE,
     filtered_books |-> None,
     books |-> <<>>,
     current_book |-> None,
     book_title |-> <<>>,
     book_price |-> <<>>,
     book_bought_date |-> <<>>,
     book_finished_date |-> <<>>,
     selected_author |-> None,
     author_dropdown |-> dropdown_new(<<>>, None),
     authors |-> <<>>,
     current_author |-> None,
     author_name |-> <<>>,
     author_books |-> <<>>,
     error |-> None]

\* ------------------------------------------------------------ the reducer
\* update(s, message, env): env holds what the call reads from outside the
\* struct: env.now (Local::now()), env.init_ok (whether db::initialize_pool()
\* succeeds) and env.pool (DB_POOL before the call).
RECURSIVE update(_, _, _)

\* ---- ui/book_view.rs: handlers
handle_load_books(s, env) == Ret(s, <<TaskGetBooks>>, env.pool)

\* Mutant: the form for a new book keeps the author selected before.
add_book_mode_keeping_author(s, env) ==
    Ret([s EXCEPT !.mode = ModeAdd,
                  !.current_book = None,
                  !.book_title = <<>>,
                  !.book_price = <<>>,
                  !.book_bought_date = <<>>,
                  !.book_finished_date = <<>>],
        <<TaskEmit(Msg("LoadAuthors"))>>, env.pool)

handle_add_book_mode(s, env) ==
    Ret([s EXCEPT !.mode = ModeAdd,
                  !.current_book = None,
                  !.book_title = <<>>,
                  !.book_price = <<>>,
                  !.book_bought_date = <<>>,
                  !.book_finished_date = <<>>,
                  !.selected_author = None],
        <<TaskEmit(Msg("LoadAuthors"))>>, env.pool)

handle_edit_book_mode(s, book, env) ==
    Ret([s EXCEPT !.mode = ModeEdit,
                  !.current_book = Some(book),
                  !.book_title = book.book.title,
                  !.book_price = IF IsSome(book.book.price)
                                 THEN f32_to_string(Unwrap(book.book.price)) ELSE <<>>,
                  !.book_bought_date = IF IsSome(book.book.bought)
                                       THEN format_datetime(Unwrap(book.book.bought)) ELSE <<>>,
                  !.book_finished_date = IF IsSome(book.book.finished)
                                         THEN format_datetime(Unwrap(book.book.finished)) ELSE <<>>,
                  !.selected_author = book.author],
        <<TaskEmit(Msg("LoadAuthors"))>>, env.pool)

\* Mutant: Cancel empties the form.
view_book_mode_clearing_form(s, env) ==
    update([s EXCEPT !.mode = ModeView,
                     !.current_book = None,
                     !.book_title = <<>>,
                     !.book_price = <<>>,
                     !.book_bought_date = <<>>,
                     !.book_finished_date = <<>>,
                     !.selected_author = None],
           Msg("LoadBooks"), env)

handle_view_book_mode(s, env) ==
    update([s EXCEPT !.mode = ModeView, !.current_book = None], Msg("LoadBooks"), env)

handle_book_title_changed(s, value, env) == Ret([s EXCEPT !.book_title = value], <<>>, env.pool)

handle_book_price_changed(s, value, env) == Ret([s EXCEPT !.book_price = value], <<>>, env.pool)

handle_book_bought_date_changed(s, value, env) ==
    Ret([s EXCEPT !.book_bought_date = value], <<>>, env.pool)

handle_book_finished_date_changed(s, value, env) ==
    Ret([s EXCEPT !.book_finished_date = value], <<>>, env.pool)

\* The NewBook that handle_save_book builds from the form.
new_book_of(s, price, now) ==
    [title |-> s.book_title,
     price |-> price,
     bought |-> parse_datetime(s.book_bought_date),
     finished |-> parse_datetime(s.book_finished_date),
     added |-> Some(IF IsSome(s.current_book) /\ IsSome(Unwrap(s.current_book).book.added)
                    THEN Unwrap(Unwrap(s.current_book).book.added)
                    ELSE now),
     AuthorFK |-> IF IsSome(s.selected_author) THEN Some(Unwrap(s.selected_author).Id) ELSE None]

\* Mutant: the save is sent although the price does not parse.
save_book_without_validation(s, env) ==
    LET price == IF s.book_price = <<>> THEN None ELSE parse_f32(s.book_price)
        new_book == new_book_of(s, price, env.now)
    IN  Ret(s, <<IF IsSome(s.current_book)
                 THEN TaskUpdateBook(Unwrap(s.current_book).book.id, new_book)
                 ELSE TaskCreateBook(new_book)>>, env.pool)

\* Mutant: a date that does not parse is refused like a price that does not.
save_book_rejecting_bad_dates(s, env) ==
    IF \/ s.book_price # <<>> /\ ~IsSome(parse_f32(s.book_price))
       \/ s.book_bought_date # <<>> /\ ~IsSome(parse_datetime(s.book_bought_date))
       \/ s.book_finished_date # <<>> /\ ~IsSome(parse_datetime(s.book_finished_date))
    THEN Ret([s EXCEPT !.error = Some("Invalid price format")], <<>>, env.pool)
    ELSE LET price == IF s.book_price = <<>> THEN None ELSE parse_f32(s.book_price)
             new_book == new_book_of(s, price, env.now)
             book_id == IF IsSome(s.current_book) THEN Some(Unwrap(s.current_book).book.id) ELSE None
         IN  Ret(s, <<IF IsSome(book_id)
                      THEN TaskUpdateBook(Unwrap(book_id), new_book)
                      ELSE TaskCreateBook(new_book)>>, env.pool)

handle_save_book(s, env) ==
    IF s.book_price # <<>> /\ ~IsSome(parse_f32(s.book_price))
    THEN Ret([s EXCEPT !.error = Some("Invalid price format")], <<>>, env.pool)
    ELSE LET price == IF s.book_price = <<>> THEN None ELSE parse_f32(s.book_price)
             new_book == new_book_of(s, price, env.now)
             book_id == IF IsSome(s.current_book) THEN Some(Unwrap(s.current_book).book.id) ELSE None
         IN  Ret(s, <<IF IsSome(book_id)
                      THEN TaskUpdateBook(Unwrap(book_id), new_book)
                      ELSE TaskCreateBook(new_book)>>, env.pool)

\* Mutant: a failed save records the error and closes the form.
book_saved_closing_form_on_error(s, result, env) ==
    IF result.ok
    THEN update([s EXCEPT !.mode = ModeView], Msg("LoadBooks"), env)
    ELSE Ret([s EXCEPT !.mode = ModeView, !.error = Some(result.err)], <<>>, env.pool)

\* Mutant: a successful save returns to the list without reloading it.
book_saved_without_reload(s, result, env) ==
    IF result.ok
    THEN Ret([s EXCEPT !.mode = ModeView], <<>>, env.pool)
    ELSE Ret([s EXCEPT !.error = Some(result.err)], <<>>, env.pool)

handle_book_saved(s, result, env) ==
    IF result.ok
    THEN update([s EXCEPT !.mode = ModeView], Msg("LoadBooks"), env)
    ELSE Ret([s EXCEPT !.error = Some(result.err)], <<>>, env.pool)

handle_confirm_delete_book(s, id, title, env) ==
    Ret([s EXCEPT !.mode = ModeConfirmDelete(id, title)], <<>>, env.pool)

\* Mutant: Cancel of the confirmation reloads the list.
cancel_delete_book_reloading(s, env) == update([s EXCEPT !.mode = ModeView], Msg("LoadBooks"), env)

handle_cancel_delete_book(s, env) == Ret([s EXCEPT !.mode = ModeView], <<>>, env.pool)

handle_delete_book(s, id, env) == Ret(s, <<TaskDeleteBook(id)>>, env.pool)

\* Mutant: a reload installs the books and leaves the search as it is.
books_loaded_keeping_search(s, result, env) ==
    IF result.ok
    THEN Ret([s EXCEPT !.books = sort_books(result.val, s.sort_field, s.sort_direction)],
             <<>>, env.pool)
    ELSE Ret([s EXCEPT !.error = Some(result.err)], <<>>, env.pool)

\* Mutant: a reload ends the search and leaves the filtered collection behind.
books_loaded_leaving_filtered(s, result, env) ==
    IF result.ok
    THEN Ret([s EXCEPT !.books = sort_books(result.val, s.sort_field, s.sort_direction),
                       !.is_searching = FALSE],
             <<>>, env.pool)
    ELSE Ret([s EXCEPT !.error = Some(result.err)], <<>>, env.pool)

\* Mutant: a loaded list is installed and requested again.
books_loaded_reloading(s, result, env) ==
    IF result.ok
    THEN Ret([s EXCEPT !.books = sort_books(result.val, s.sort_field, s.sort_direction),
                       !.filtered_books = None,
                       !.is_searching = FALSE],
             <<TaskGetBooks>>, env.pool)
    ELSE Ret([s EXCEPT !.error = Some(result.err)], <<>>, env.pool)

handle_books_loaded(s, result, env) ==
    IF result.ok
    THEN Ret([s EXCEPT !.books = sort_books(result.val, s.sort_field, s.sort_direction),
                       !.filtered_books = None,
                       !.is_searching = FALSE],
             <<>>, env.pool)
    ELSE Ret([s EXCEPT !.error = Some(result.err)], <<>>, env.pool)

\* Mutant: a failed delete records the error and leaves the confirmation open.
book_deleted_stays_on_error(s, result, env) ==
    IF result.ok
    THEN update([s EXCEPT !.mode = ModeView], Msg("LoadBooks"), env)
    ELSE Ret([s EXCEPT !.error = Some(result.err)], <<>>, env.pool)

handle_book_deleted(s, result, env) ==
    IF result.ok
    THEN update([s EXCEPT !.mode = ModeView], Msg("LoadBooks"), env)
    ELSE update([s EXCEPT !.mode = ModeView, !.error = Some(result.err)], Msg("LoadBooks"), env)

\* ---- ui/author_view.rs: handlers
\* Mutant: LoadAuthors issues no request.
load_authors_issuing_nothing(s, env) == Ret(s, <<>>, env.pool)

handle_load_authors(s, env) == Ret(s, <<TaskGetAuthors>>, env.pool)

\* Mutant: loaded authors empty the books collection until it is loaded again.
authors_loaded_resetting_books(s, result, env) ==
    IF result.ok
    THEN Ret([s EXCEPT !.authors = result.val, !.books = <<>>], <<>>, env.pool)
    ELSE Ret([s EXCEPT !.error = Some(result.err)], <<>>, env.pool)

handle_authors_loaded(s, result, env) ==
    IF result.ok
    THEN Ret([s EXCEPT !.authors = result.val], <<>>, env.pool)
    ELSE Ret([s EXCEPT !.error = Some(result.err)], <<>>, env.pool)

\* Mutant: the Add form of the authors keeps the current author.
add_author_mode_keeping_slot(s, env) ==
    Ret([s EXCEPT !.mode = ModeAdd, !.author_name = <<>>], <<>>, env.pool)

handle_add_author_mode(s, env) ==
    Ret([s EXCEPT !.mode = ModeAdd, !.current_author = None, !.author_name = <<>>],
        <<>>, env.pool)

handle_edit_author_mode(s, author, env) ==
    Ret([s EXCEPT !.mode = ModeEdit,
                  !.current_author = Some(author),
                  !.author_name = UnwrapOr(author.Name, <<>>)],
        <<>>, env.pool)

\* Mutant: Cancel writes the form to the record being edited.
view_author_mode_saving(s, env) ==
    LET r == update([s EXCEPT !.mode = ModeView, !.current_author = None, !.author_books = <<>>],
                    Msg("LoadAuthors"), env)
    IN  IF IsSome(s.current_author)
        THEN Ret(r.app,
                 <<TaskUpdateAuthor(Unwrap(s.current_author).Id, [Name |-> Some(s.author_name)])>>
                     \o r.cmds,
                 r.pool)
        ELSE r

handle_view_author_mode(s, env) ==
    update([s EXCEPT !.mode = ModeView, !.current_author = None, !.author_books = <<>>],
           Msg("LoadAuthors"), env)

handle_view_author_details(s, author, env) ==
    Ret([s EXCEPT !.mode = ModeViewDetails, !.current_author = Some(author)],
        <<TaskGetBooksByAuthor(author.Id)>>, env.pool)

\* Mutant: a successful load of an author's books clears the error.
author_books_loaded_clearing_error(s, result, env) ==
    IF result.ok
    THEN Ret([s EXCEPT !.author_books = result.val, !.error = None], <<>>, env.pool)
    ELSE Ret([s EXCEPT !.error = Some(result.err)], <<>>, env.pool)

handle_author_books_loaded(s, result, env) ==
    IF result.ok
    THEN Ret([s EXCEPT !.author_books = result.val], <<>>, env.pool)
    ELSE Ret([s EXCEPT !.error = Some(result.err)], <<>>, env.pool)

handle_author_name_changed(s, value, env) == Ret([s EXCEPT !.author_name = value], <<>>, env.pool)

handle_save_author(s, env) ==
    LET new_author == [Name |-> Some(s.author_name)]
        author_id == IF IsSome(s.current_author) THEN Some(Unwrap(s.current_author).Id) ELSE None
    IN  Ret(s, <<IF IsSome(author_id)
                 THEN TaskUpdateAuthor(Unwrap(author_id), new_author)
                 ELSE TaskCreateAuthor(new_author)>>, env.pool)

handle_author_saved(s, result, env) ==
    IF result.ok
    THEN update([s EXCEPT !.mode = ModeView], Msg("LoadAuthors"), env)
    ELSE Ret([s EXCEPT !.error = Some(result.err)], <<>>, env.pool)

handle_confirm_delete_author(s, id, name, env) ==
    Ret([s EXCEPT !.mode = ModeConfirmDelete(id, name)], <<>>, env.pool)

handle_cancel_delete_author(s, env) == Ret([s EXCEPT !.mode = ModeView], <<>>, env.pool)

handle_delete_author(s, id, env) == Ret(s, <<TaskDeleteAuthor(id)>>, env.pool)

handle_author_deleted(s, result, env) ==
    IF result.ok
    THEN update([s EXCEPT !.mode = ModeView], Msg("LoadAuthors"), env)
    ELSE update([s EXCEPT !.mode = ModeView, !.error = Some(result.err)], Msg("LoadAuthors"), env)

\* ---- ui/state.rs: BookshelfApp::update
\* Mutant: a book without author, or whose author has no name, matches by author.
search_matches_authorless(book, query) ==
    LET title_match == contains(to_lowercase(book.book.title), query)
        author_match ==
            IF IsSome(book.author) /\ IsSome(Unwrap(book.author).Name)
            THEN contains(to_lowercase(Unwrap(Unwrap(book.author).Name)), query)
            ELSE TRUE
        price_match ==
            /\ IsSome(book.book.price)
            /\ LET price == Unwrap(book.book.price)
                   query_num == parse_f32(query)
               IN  IF IsSome(query_num)
                   THEN \/ starts_with(f32_to_string(price), f32_to_string(Unwrap(query_num)))
                        \/ price = Unwrap(query_num)
                   ELSE contains(f32_to_string(price), query)
    IN  title_match \/ author_match \/ price_match

\* Mutant: a numeric query is looked for anywhere in the price.
search_matches_price_anywhere(book, query) ==
    LET title_match == contains(to_lowercase(book.book.title), query)
        author_match ==
            /\ IsSome(book.author)
            /\ IsSome(Unwrap(book.author).Name)
            /\ contains(to_lowercase(Unwrap(Unwrap(book.author).Name)), query)
        price_match ==
            /\ IsSome(book.book.price)
            /\ contains(f32_to_string(Unwrap(book.book.price)), query)
    IN  title_match \/ author_match \/ price_match

\* The closure of PerformSearch's filter: title, author name or price matches.
search_matches(book, query) ==
    LET title_match == contains(to_lowercase(book.book.title), query)
        author_match ==
            /\ IsSome(book.author)
            /\ IsSome(Unwrap(book.author).Name)
            /\ contains(to_lowercase(Unwrap(Unwrap(book.author).Name)), query)
        price_match ==
            /\ IsSome(book.book.price)
            /\ LET price == Unwrap(book.book.price)
                   query_num == parse_f32(query)
               IN  IF IsSome(query_num)
                   THEN \/ starts_with(f32_to_string(price), f32_to_string(Unwrap(query_num)))
                        \/ price = Unwrap(query_num)
                   ELSE contains(f32_to_string(price), query)
    IN  title_match \/ author_match \/ price_match

\* books.iter().filter(..).cloned().collect()
filter_books(books, query) ==
    LET keep(b) == search_matches(b, query)
    IN  SelectSeq(books, keep)

\* Mutant: while a search is active nothing is sorted.
apply_sorting_outside_search(s) ==
    IF s.is_searching
    THEN s
    ELSE [s EXCEPT !.books = sort_books(s.books, s.sort_field, s.sort_direction)]

\* Message::ApplySorting
apply_sorting(s) ==
    IF s.is_searching
    THEN IF IsSome(s.filtered_books)
         THEN [s EXCEPT !.filtered_books =
                            Some(sort_books(Unwrap(s.filtered_books), s.sort_field, s.sort_direction))]
         ELSE s
    ELSE [s EXCEPT !.books = sort_books(s.books, s.sort_field, s.sort_direction)]

\* Mutant: an empty query is searched for like any other.
perform_search_matching_all(s, env) ==
    IF s.current_tab = "Books"
    THEN update([s EXCEPT !.is_searching = TRUE,
                          !.filtered_books =
                              Some(filter_books(s.books, to_lowercase(s.search_query))),
                          !.search_term_displayed = s.search_query],
                Msg("ApplySorting"), env)
    ELSE Ret([s EXCEPT !.is_searching = TRUE], <<>>, env.pool)

\* Message::PerformSearch
perform_search(s, env) ==
    IF s.search_query = <<>>
    THEN Ret([s EXCEPT !.is_searching = FALSE, !.filtered_books = None], <<>>, env.pool)
    ELSE IF s.current_tab = "Books"
         THEN update([s EXCEPT !.is_searching = TRUE,
                               !.filtered_books =
                                   Some(filter_books(s.books, to_lowercase(s.search_query))),
                               !.search_term_displayed = s.search_query],
                     Msg("ApplySorting"), env)
         ELSE Ret([s EXCEPT !.is_searching = TRUE], <<>>, env.pool)

update(s, message, env) ==
    CASE message.kind = "Initialize" ->
            IF ~env.init_ok
            THEN Ret([s EXCEPT !.error = Some("Failed to initialize database")], <<>>, env.pool)
            ELSE LET e1 == [env EXCEPT !.pool = TRUE]
                     r1 == update(s, Msg("LoadBooks"), e1)
                     r2 == update(r1.app, Msg("LoadAuthors"), e1)
                 IN  Ret(r2.app, r1.cmds \o r2.cmds, TRUE)
      [] message.kind = "TabSelected" ->
            LET s1 == [s EXCEPT !.current_tab = message.tab,
                                !.mode = ModeView,
                                !.search_query = <<>>,
                                !.search_term_displayed = <<>>,
                                !.is_searching = FALSE,
                                !.filtered_books = None]
            IN  IF message.tab = "Books"
                THEN update(s1, Msg("LoadBooks"), env)
                ELSE update(s1, Msg("LoadAuthors"), env)
      [] message.kind = "SortFieldSelected" ->
            update([s EXCEPT !.sort_field = message.field], Msg("ApplySorting"), env)
      [] message.kind = "SortDirectionSelected" ->
            update([s EXCEPT !.sort_direction = message.direction], Msg("ApplySorting"), env)
      [] message.kind = "ApplySorting" -> Ret(apply_sorting(s), <<>>, env.pool)
      [] message.kind = "SearchQueryChanged" ->
            Ret([s EXCEPT !.search_query = message.value], <<>>, env.pool)
      [] message.kind = "ToggleAuthorDropdown" ->
            Ret([s EXCEPT !.author_dropdown = dropdown_toggle(s.author_dropdown)], <<>>, env.pool)
      [] message.kind = "AuthorSearchChanged" ->
            Ret([s EXCEPT !.author_dropdown = dropdown_search(s.author_dropdown, message.value)],
                <<>>, env.pool)
      [] message.kind = "BookAuthorSelected" ->
            Ret([s EXCEPT !.selected_author = Some(message.author),
                          !.author_dropdown = dropdown_select(s.author_dropdown, message.author)],
                <<>>, env.pool)
      [] message.kind = "PerformSearch" -> perform_search(s, env)
      [] message.kind = "ClearSearch" ->
            Ret([s EXCEPT !.search_query = <<>>,
                          !.search_term_displayed = <<>>,
                          !.is_searching = FALSE,
                          !.filtered_books = None],
                <<>>, env.pool)
      [] message.kind = "LoadBooks" -> handle_load_books(s, env)
      [] message.kind = "BooksLoaded" ->
            LET command == handle_books_loaded(s, message.result, env)
            IN  IF command.app.books # <<>>
                THEN Ret(update(command.app, Msg("ApplySorting"), env).app, command.cmds, env.pool)
                ELSE command
      [] message.kind = "AddBookMode" -> handle_add_book_mode(s, env)
      [] message.kind = "EditBookMode" -> handle_edit_book_mode(s, message.book, env)
      [] message.kind = "ViewBookMode" -> handle_view_book_mode(s, env)
      [] message.kind = "BookTitleChanged" -> handle_book_title_changed(s, message.value, env)
      [] message.kind = "BookPriceChanged" -> handle_book_price_changed(s, message.value, env)
      [] message.kind = "BookBoughtDateChanged" ->
            handle_book_bought_date_changed(s, message.value, env)
      [] message.kind = "BookFinishedDateChanged" ->
            handle_book_finished_date_changed(s, message.value, env)
      [] message.kind = "SaveBook" -> handle_save_book(s, env)
      [] message.kind = "BookSaved" -> handle_book_saved(s, message.result, env)
      [] message.kind = "ConfirmDeleteBook" ->
            handle_confirm_delete_book(s, message.id, message.name, env)
      [] message.kind = "CancelDeleteBook" -> handle_cancel_delete_book(s, env)
      [] message.kind = "DeleteBook" -> handle_delete_book(s, message.id, env)
      [] message.kind = "BookDeleted" -> handle_book_deleted(s, message.result, env)
      [] message.kind = "LoadAuthors" -> handle_load_authors(s, env)
      [] message.kind = "AuthorsLoaded" -> handle_authors_loaded(s, message.result, env)
      [] message.kind = "AddAuthorMode" -> handle_add_author_mode(s, env)
      [] message.kind = "EditAuthorMode" -> handle_edit_author_mode(s, message.author, env)
      [] message.kind = "ViewAuthorMode" -> handle_view_author_mode(s, env)
      [] message.kind = "ViewAuthorDetails" -> handle_view_author_details(s, message.author, env)
      [] message.kind = "AuthorBooksLoaded" -> handle_author_books_loaded(s, message.result, env)
      [] message.kind = "AuthorNameChanged" -> handle_author_name_changed(s, message.value, env)
      [] message.kind = "SaveAuthor" -> handle_save_author(s, env)
      [] message.kind = "AuthorSaved" -> handle_author_saved(s, message.result, env)
      [] message.kind = "ConfirmDeleteAuthor" ->
            handle_confirm_delete_author(s, message.id, message.name, env)
      [] message.kind = "CancelDeleteAuthor" -> handle_cancel_delete_author(s, env)
      [] message.kind = "DeleteAuthor" -> handle_delete_author(s, message.id, env)
      [] message.kind = "AuthorDeleted" -> handle_author_deleted(s, message.result, env)
      [] message.kind = "Error" -> Ret([s EXCEPT !.error = Some(message.value)], <<>>, env.pool)

\* ------------------------------------------------------------ db.rs
\* DbError, as the message the handlers store.
ErrPoolNotInitialized == "Database pool not initialized"
ErrConnection == "Database connection error"
ErrNotFound == "Database query error: Record not found"

\* Author::table.find(id).first(): the row, or None.
find_author(d, id) ==
    LET hits == {i \in 1..Len(d.authors) : d.authors[i].Id = id}
    IN  IF hits = {} THEN None ELSE Some(d.authors[CHOOSE i \in hits : TRUE])

\* The join of get_books and get_book: a missing author resolves to None.
resolve_author(d, book) ==
    IF IsSome(book.AuthorFK) THEN find_author(d, Unwrap(book.AuthorFK)) ELSE None

get_books(d) == [i \in 1..Len(d.books) |-> BookWithAuthor(d.books[i], resolve_author(d, d.books[i]))]

get_authors(d) == d.authors

get_books_by_author(d, author_id) ==
    LET mine(b) == b.AuthorFK = Some(author_id)
        rows == SelectSeq(d.books, mine)
        author == find_author(d, author_id)
    IN  [i \in 1..Len(rows) |-> BookWithAuthor(rows[i], author)]

\* The id SQLite gives a new row of an INTEGER PRIMARY KEY table: one more
\* than the largest in use.
next_id(ids) == IF ids = {} THEN 1 ELSE (CHOOSE m \in ids : \A k \in ids : k <= m) + 1

book_ids(d) == {d.books[i].id : i \in 1..Len(d.books)}
author_ids(d) == {d.authors[i].Id : i \in 1..Len(d.authors)}

row_of_new_book(id, nb) ==
    BookModel(id, nb.title, nb.price, nb.bought, nb.finished, nb.added, nb.AuthorFK)

\* create_book: [db, result]
create_book(d, nb) ==
    LET row == row_of_new_book(next_id(book_ids(d)), nb)
    IN  [db |-> [d EXCEPT !.books = Append(d.books, row)], result |-> Ok(row)]

\* update_book: get_result fails with NotFound when no row has the id.
update_book(d, id, nb) ==
    IF id \in book_ids(d)
    THEN [db |-> [d EXCEPT !.books = [i \in 1..Len(d.books) |->
                                         IF d.books[i].id = id THEN row_of_new_book(id, nb)
                                         ELSE d.books[i]]],
          result |-> Ok(row_of_new_book(id, nb))]
    ELSE [db |-> d, result |-> Err(ErrNotFound)]

\* delete_book: the number of rows deleted.
delete_book(d, id) ==
    LET keep(b) == b.id # id
    IN  [db |-> [d EXCEPT !.books = SelectSeq(d.books, keep)],
         result |-> Ok(IF id \in book_ids(d) THEN 1 ELSE 0)]

create_author(d, na) ==
    LET row == AuthorModel(next_id(author_ids(d)), na.Name)
    IN  [db |-> [d EXCEPT !.authors = Append(d.authors, row)], result |-> Ok(row)]

update_author(d, id, na) ==
    IF id \in author_ids(d)
    THEN [db |-> [d EXCEPT !.authors = [i \in 1..Len(d.authors) |->
                                           IF d.authors[i].Id = id THEN AuthorModel(id, na.Name)
                                           ELSE d.authors[i]]],
          result |-> Ok(AuthorModel(id, na.Name))]
    ELSE [db |-> d, result |-> Err(ErrNotFound)]

delete_author(d, id) ==
    LET keep(a) == a.Id # id
    IN  [db |-> [d EXCEPT !.authors = SelectSeq(d.authors, keep)],
         result |-> Ok(IF id \in author_ids(d) THEN 1 ELSE 0)]

\* Mutant: the future reads the record to write when it runs, from the book
\* the form holds then.
run_task_reading_current_book(t, d) ==
    IF t.op \in {"create_book", "update_book"}
    THEN LET r == IF IsSome(app.current_book)
                  THEN update_book(d, Unwrap(app.current_book).book.id, t.new_book)
                  ELSE create_book(d, t.new_book)
         IN  [db |-> r.db, msg |-> MsgWith("BookSaved", [result |-> r.result])]
    ELSE LET r == IF t.op = "create_author" THEN create_author(d, t.new_author)
                  ELSE update_author(d, t.id, t.new_author)
         IN  IF t.op \in {"create_author", "update_author"}
             THEN [db |-> r.db, msg |-> MsgWith("AuthorSaved", [result |-> r.result])]
             ELSE [db |-> d,
                   msg |-> IF t.op = "get_books" THEN MsgWith("BooksLoaded", [result |-> Ok(get_books(d))])
                           ELSE MsgWith("AuthorsLoaded", [result |-> Ok(get_authors(d))])]

\* The future of a task, run against the store: the store it leaves and the
\* message its completion carries (the second argument of Task::perform).
run_task(t, d) ==
    CASE t.op = "get_books" -> [db |-> d, msg |-> MsgWith("BooksLoaded", [result |-> Ok(get_books(d))])]
      [] t.op = "get_authors" -> [db |-> d, msg |-> MsgWith("AuthorsLoaded", [result |-> Ok(get_authors(d))])]
      [] t.op = "get_books_by_author" ->
            [db |-> d, msg |-> MsgWith("AuthorBooksLoaded", [result |-> Ok(get_books_by_author(d, t.id))])]
      [] t.op = "create_book" ->
            LET r == create_book(d, t.new_book) IN [db |-> r.db, msg |-> MsgWith("BookSaved", [result |-> r.result])]
      [] t.op = "update_book" ->
            LET r == update_book(d, t.id, t.new_book) IN [db |-> r.db, msg |-> MsgWith("BookSaved", [result |-> r.result])]
      [] t.op = "delete_book" ->
            LET r == delete_book(d, t.id) IN [db |-> r.db, msg |-> MsgWith("BookDeleted", [result |-> r.result])]
      [] t.op = "create_author" ->
            LET r == create_author(d, t.new_author) IN [db |-> r.db, msg |-> MsgWith("AuthorSaved", [result |-> r.result])]
      [] t.op = "update_author" ->
            LET r == update_author(d, t.id, t.new_author) IN [db |-> r.db, msg |-> MsgWith("AuthorSaved", [result |-> r.result])]
      [] t.op = "delete_author" ->
            LET r == delete_author(d, t.id) IN [db |-> r.db, msg |-> MsgWith("AuthorDeleted", [result |-> r.result])]

\* The message of a task whose persistence call fails with error e
\* (Err(e.to_string()) in every future).
failed_task(t, e) ==
    CASE t.op = "get_books" -> MsgWith("BooksLoaded", [result |-> Err(e)])
      [] t.op = "get_authors" -> MsgWith("AuthorsLoaded", [result |-> Err(e)])
      [] t.op = "get_books_by_author" -> MsgWith("AuthorBooksLoaded", [result |-> Err(e)])
      [] t.op \in {"create_book", "update_book"} -> MsgWith("BookSaved", [result |-> Err(e)])
      [] t.op = "delete_book" -> MsgWith("BookDeleted", [result |-> Err(e)])
      [] t.op \in {"create_author", "update_author"} -> MsgWith("AuthorSaved", [result |-> Err(e)])
      [] t.op = "delete_author" -> MsgWith("AuthorDeleted", [result |-> Err(e)])

\* ------------------------------------------------------------ inputs
\* What the user types, drawn from small sets.
TitleInputs == {<<97>>}                                     \* "a"
PriceInputs == {<<120>>, <<55>>}                            \* "x", "7"
DateInputs == {format_datetime(<<2024, 1, 2, 3, 4, 5>>), <<49, 45, 50>>}   \* a well-formed date, "1-2"
NameInputs == {<<100>>}                                     \* "d"
QueryInputs == {<<>>, <<98>>}                               \* "", "b"
TermInputs == {<<99>>, <<78>>}                              \* "c", "N"
\* What Local::now() returns.
Clock == {<<2024, 6, 1, 0, 0, 0>>}

SortFields == {"Title", "Author", "Price", "DateAdded"}
SortDirections == {"Ascending", "Descending"}

\* ------------------------------------------------------------ the views
\* The messages the widgets of the rendered view can emit.

\* ui/book_view.rs view_book_list
books_to_display(s) ==
    IF s.is_searching THEN UnwrapOr(s.filtered_books, s.books) ELSE s.books

\* Mutant: the Delete button of a list row sends the delete itself.
book_row_deletes_directly(b) == {MsgWith("EditBookMode", [book |-> b]), MsgWith("DeleteBook", [id |-> b.book.id])}

\* ui/book_view.rs create_books_list: the Edit and Delete buttons of one row.
book_row_buttons(b) == {MsgWith("EditBookMode", [book |-> b]), MsgWith("ConfirmDeleteBook", [id |-> b.book.id, name |-> b.book.title])}

create_books_list(bs) == UNION {book_row_buttons(bs[i]) : i \in 1..Len(bs)}

\* ui/components/searchable_dropdown.rs view_author_dropdown
dropdown_filtered_options(d) ==
    IF d.search_term = <<>> THEN d.options
    ELSE LET keep(a) == contains(to_lowercase(UnwrapOr(a.Name, <<>>)), to_lowercase(d.search_term))
         IN  SelectSeq(d.options, keep)

view_author_dropdown(d) ==
    {Msg("ToggleAuthorDropdown")} \cup
    (IF d.is_open
     THEN {MsgWith("AuthorSearchChanged", [value |-> t]) : t \in {<<>>} \cup TermInputs} \cup
          {MsgWith("BookAuthorSelected", [author |-> dropdown_filtered_options(d)[i]]) :
              i \in 1..Len(dropdown_filtered_options(d))}
     ELSE {})

view_book_form(s) ==
    {MsgWith("BookTitleChanged", [value |-> v]) : v \in TitleInputs} \cup
    {MsgWith("BookPriceChanged", [value |-> v]) : v \in PriceInputs} \cup
    {MsgWith("BookBoughtDateChanged", [value |-> v]) : v \in DateInputs} \cup
    {MsgWith("BookFinishedDateChanged", [value |-> v]) : v \in DateInputs} \cup
    view_author_dropdown(s.author_dropdown) \cup
    {Msg("SaveBook"), Msg("ViewBookMode")}

book_view(s) ==
    CASE s.mode[1] \in {"View", "ViewDetails"} ->
            {Msg("AddBookMode")} \cup create_books_list(books_to_display(s))
      [] s.mode[1] \in {"Add", "Edit"} -> view_book_form(s)
      [] s.mode[1] = "ConfirmDelete" -> {Msg("CancelDeleteBook"), MsgWith("DeleteBook", [id |-> s.mode[2]])}

\* "Unnamed Author" when the author has no name
UnnamedAuthor == <<85, 110, 110, 97, 109, 101, 100, 32, 65, 117, 116, 104, 111, 114>>

author_buttons(a) ==
    {MsgWith("EditAuthorMode", [author |-> a]), MsgWith("ConfirmDeleteAuthor", [id |-> a.Id, name |-> UnwrapOr(a.Name, UnnamedAuthor)])}

\* ui/author_view.rs view_author_list
view_author_list(s) ==
    {Msg("AddAuthorMode")} \cup
    UNION {{MsgWith("ViewAuthorDetails", [author |-> s.authors[i]])} \cup author_buttons(s.authors[i]) :
              i \in 1..Len(s.authors)}

\* ui/author_view.rs view_author_details
view_author_details(s) ==
    IF IsSome(s.current_author)
    THEN {Msg("ViewAuthorMode")} \cup author_buttons(Unwrap(s.current_author)) \cup
         (IF s.author_books # <<>> THEN {MsgWith("TabSelected", [tab |-> "Books"])} ELSE {})
    ELSE view_author_list(s)

author_view(s) ==
    CASE s.mode[1] = "View" -> view_author_list(s)
      [] s.mode[1] = "ViewDetails" -> view_author_details(s)
      [] s.mode[1] \in {"Add", "Edit"} ->
            {MsgWith("AuthorNameChanged", [value |-> v]) : v \in NameInputs} \cup {Msg("SaveAuthor"), Msg("ViewAuthorMode")}
      [] s.mode[1] = "ConfirmDelete" -> {Msg("CancelDeleteAuthor"), MsgWith("DeleteAuthor", [id |-> s.mode[2]])}

\* ui/common.rs view
view(s) ==
    {MsgWith("TabSelected", [tab |-> "Books"]), MsgWith("TabSelected", [tab |-> "Authors"])} \cup
    (IF s.current_tab = "Books"
     THEN {MsgWith("SearchQueryChanged", [value |-> q]) : q \in QueryInputs} \cup
          {Msg("PerformSearch")} \cup
          (IF s.search_query # <<>> THEN {Msg("ClearSearch")} ELSE {}) \cup
          {MsgWith("SortFieldSelected", [field |-> f]) : f \in SortFields} \cup
          {MsgWith("SortDirectionSelected", [direction |-> d]) : d \in SortDirections}
     ELSE {}) \cup
    (IF s.current_tab = "Books" THEN book_view(s) ELSE author_view(s))

\* ------------------------------------------------------------ the runtime
\* Most tasks in flight at once: the user is held back at this many.
MaxTasks == 2
\* Largest row id the store hands out: a create beyond it fails.
MaxId == 2

\* A task in flight: its future has not run yet (res = None) or has run and
\* its message waits to be delivered (res = Some(message)).  stale is history:
\* a load-books whose result is older than the one update() handled last.
task_entry(t) ==
    [task |-> t, res |-> IF t.op = "emit" THEN Some(t.msg) ELSE None, stale |-> FALSE]

\* The boot task of main.rs, Task::perform(async {}, |_| Message::Initialize),
\* completes before the window takes input.
Booted == \A i \in 1..Len(tasks) : tasks[i].res # Some(Msg("Initialize"))

\* History of the last call of update(): the message, the tasks it returned,
\* whether the message was a superseded load-books result, and the mode and
\* search flag the call found.
NoCall == [msg |-> Msg("None"), cmds |-> <<>>, stale |-> FALSE,
           mode |-> ModeView, searching |-> FALSE]

\* One call of update(): the struct, the pool flag and the tasks it spawns.
Dispatch(m, rest, stale, now, init_ok) ==
    \E r \in {update(app, m, [now |-> now, init_ok |-> init_ok, pool |-> pool])} :
        /\ Len(rest) + Len(r.cmds) <= MaxTasks
        /\ app' = r.app
        /\ pool' = r.pool
        /\ tasks' = rest \o [i \in 1..Len(r.cmds) |-> task_entry(r.cmds[i])]
        /\ last' = [msg |-> m, cmds |-> r.cmds, stale |-> stale,
                    mode |-> app.mode, searching |-> app.is_searching]
        /\ UNCHANGED <<db, fn_in, fn_out>>

\* A widget of the current view emits a message of this kind.
User(kind) ==
    \E m \in view(app) : m.kind = kind /\ \E now \in Clock : Dispatch(m, tasks, FALSE, now, TRUE)

\* The tasks left when task i completes; a delivered load-books result makes
\* every load-books issued before it stale.
without_task(i, m) ==
    LET marked == [j \in 1..Len(tasks) |->
                      IF m.kind = "BooksLoaded" /\ m.result.ok /\ j < i /\
                         tasks[j].task.op = "get_books"
                      THEN [tasks[j] EXCEPT !.stale = TRUE] ELSE tasks[j]]
    IN  SubSeq(marked, 1, i - 1) \o SubSeq(marked, i + 1, Len(marked))

\* The runtime hands the message of a completed task to update().
Completion(kind) ==
    \E i \in 1..Len(tasks) :
        /\ IsSome(tasks[i].res)
        /\ Unwrap(tasks[i].res).kind = kind
        /\ \E init_ok \in IF kind = "Initialize" THEN BOOLEAN ELSE {TRUE} :
              \E now \in Clock :
                 Dispatch(Unwrap(tasks[i].res), without_task(i, Unwrap(tasks[i].res)),
                          tasks[i].stale, now, init_ok)

\* The future of task i runs its persistence call, which succeeds.
RunTask ==
    \E i \in 1..Len(tasks) :
        /\ tasks[i].res = None
        /\ pool
        /\ LET t == tasks[i].task
               r == run_task(t, db)
           IN  /\ t.op = "create_book" => next_id(book_ids(db)) <= MaxId
               /\ t.op = "create_author" => next_id(author_ids(db)) <= MaxId
               /\ db' = r.db
               /\ tasks' = [tasks EXCEPT ![i].res = Some(r.msg)]
        /\ UNCHANGED <<app, pool, last, fn_in, fn_out>>

\* The persistence call of task i fails: get_connection() has no pool, or the
\* pool hands out no connection.
FailTask ==
    \E i \in 1..Len(tasks) :
        /\ tasks[i].res = None
        /\ tasks' = [tasks EXCEPT ![i].res =
                        Some(failed_task(tasks[i].task,
                                         IF pool THEN ErrConnection ELSE ErrPoolNotInitialized))]
        /\ UNCHANGED <<app, pool, db, last, fn_in, fn_out>>

\* The widgets of the current view emit this very message.
UserMsg(m) ==
    /\ m \in view(app)
    /\ \E now \in Clock : Dispatch(m, tasks, FALSE, now, TRUE)

\* ---- the user's actions
TabSelected == Booted /\ User("TabSelected")
TabSelectedBooks == Booted /\ UserMsg(MsgWith("TabSelected", [tab |-> "Books"]))
SortDirectionSelected == Booted /\ User("SortDirectionSelected")
SearchQueryChanged == Booted /\ User("SearchQueryChanged")
PerformSearch == Booted /\ User("PerformSearch")
ClearSearch == Booted /\ User("ClearSearch")
AddBookMode == Booted /\ User("AddBookMode")
EditBookMode == Booted /\ User("EditBookMode")
ViewBookMode == Booted /\ User("ViewBookMode")
BookTitleChanged == Booted /\ User("BookTitleChanged")
BookPriceChanged == Booted /\ User("BookPriceChanged")
BookBoughtDateChanged == Booted /\ User("BookBoughtDateChanged")
BookFinishedDateChanged == Booted /\ User("BookFinishedDateChanged")
SaveBook == Booted /\ User("SaveBook")
ConfirmDeleteBook == Booted /\ User("ConfirmDeleteBook")
CancelDeleteBook == Booted /\ User("CancelDeleteBook")
DeleteBook == Booted /\ User("DeleteBook")
AddAuthorMode == Booted /\ User("AddAuthorMode")
EditAuthorMode == Booted /\ User("EditAuthorMode")
ViewAuthorMode == Booted /\ User("ViewAuthorMode")
AuthorNameChanged == Booted /\ User("AuthorNameChanged")
SaveAuthor == Booted /\ User("SaveAuthor")
ConfirmDeleteAuthor == Booted /\ User("ConfirmDeleteAuthor")
CancelDeleteAuthor == Booted /\ User("CancelDeleteAuthor")
DeleteAuthor == Booted /\ User("DeleteAuthor")

\* ---- the completions
Initialize == tasks # <<>> /\ Completion("Initialize")
LoadAuthors == tasks # <<>> /\ Completion("LoadAuthors")
BooksLoaded == tasks # <<>> /\ Completion("BooksLoaded")
BookSaved == tasks # <<>> /\ Completion("BookSaved")
BookDeleted == tasks # <<>> /\ Completion("BookDeleted")
AuthorsLoaded == tasks # <<>> /\ Completion("AuthorsLoaded")
AuthorSaved == tasks # <<>> /\ Completion("AuthorSaved")
AuthorDeleted == tasks # <<>> /\ Completion("AuthorDeleted")

\* ------------------------------------------------------------ the stores at start
T2024 == <<2024, 1, 1, 0, 0, 0>>
Author1 == AuthorModel(1, Some(<<99>>))                                       \* "c"
Book1 == BookModel(1, <<98>>, Some(500), None, None, Some(T2024), Some(1))    \* "b", 5.00
Book2 == BookModel(2, <<97>>, None, None, None, None, None)                   \* "a"

SmallDb == [books |-> <<Book1>>, authors |-> <<Author1>>]
FullDb == [books |-> <<Book1, Book2>>, authors |-> <<Author1>>]

InitApp(dbs) ==
    /\ app = new_app
    /\ pool = FALSE
    /\ db \in dbs
    /\ tasks = <<task_entry(TaskEmit(Msg("Initialize")))>>
    /\ last = NoCall
    /\ fn_in = None
    /\ fn_out = None

\* ------------------------------------------------------------ specifications
\* What the runtime does on its own: futures run, completions of the loads
\* and of the boot task are delivered.
Runtime == RunTask \/ Initialize \/ BooksLoaded \/ AuthorsLoaded

\* ---- sort_books on its own
\* The records handed to sort_books: ids are distinct (the primary key), and
\* under every field at least two records have equal keys.
SortBooks ==
    {BookWithAuthor(BookModel(1, <<98>>, Some(500), None, None, Some(T2024), Some(1)),
                    Some(Author1)),                                           \* "b"
     BookWithAuthor(BookModel(2, <<66>>, None, None, None, None, None),
                    None),                                                    \* "B"
     BookWithAuthor(BookModel(3, <<97>>, Some(0), None, None, Some(T2024), Some(2)),
                    Some(AuthorModel(2, None))),                              \* "a"
     BookWithAuthor(BookModel(4, <<97>>, Some(500), None, None, Some(<<2023, 6, 1, 0, 0, 0>>), Some(1)),
                    Some(Author1))}                                           \* "a"

\* Vec<BookWithAuthor> of at most MaxLen records, no record twice.
SortVecs ==
    UNION {{v \in [1..n -> SortBooks] : \A i, j \in 1..n : v[i] = v[j] => i = j} : n \in 0..MaxLen}

InitSort ==
    /\ app = new_app
    /\ pool = FALSE
    /\ db = [books |-> <<>>, authors |-> <<>>]
    /\ tasks = <<>>
    /\ last = NoCall
    /\ fn_in \in {Some([books |-> v, field |-> f, direction |-> d]) :
                     v \in SortVecs, f \in SortFields, d \in SortDirections}
    /\ fn_out = None

\* sort_books(&mut books, &field, &direction)
CallSortBooks ==
    /\ fn_in # None
    /\ fn_out = None
    /\ fn_out' = Some(sort_books(Unwrap(fn_in).books, Unwrap(fn_in).field, Unwrap(fn_in).direction))
    /\ UNCHANGED <<app, pool, db, tasks, last, fn_in>>

SpecSort == InitSort /\ [][CallSortBooks]_vars

\* ------------------------------------------------------------ properties of sort_books
sort_input == Unwrap(fn_in).books
sort_field == Unwrap(fn_in).field
sort_direction == Unwrap(fn_in).direction
sort_output == Unwrap(fn_out)
sort_called == fn_in # None /\ fn_out # None

\* Where a record stands in a vector that holds it once.
position(v, x) == CHOOSE i \in 1..Len(v) : v[i] = x

\* Two records of the input have equal keys under the field.
has_equal_keys(v, field) ==
    \E i, j \in 1..Len(v) : i < j /\ field_order(v[i], v[j], field) = "Equal"

\* out holds the records of v, each once.
is_permutation(out, v) ==
    /\ Len(out) = Len(v)
    /\ \A i \in 1..Len(v) : \E j \in 1..Len(out) : out[j] = v[i]

\* Records with equal keys stand in out in the order they have in v.
keeps_input_order(out, v, field) ==
    \A i, j \in 1..Len(out) :
        (i < j /\ field_order(out[i], out[j], field) = "Equal")
            => position(v, out[i]) < position(v, out[j])

\* C2 as stated: for every collection and every field, sort_books with
\* Descending returns the exact reverse of what sort_books with Ascending
\* returns on the same input, equal keys included.
DescendingIsExactReverse ==
    (sort_called /\ sort_direction = "Descending")
        => sort_output = Reverse(sort_books(sort_input, sort_field, "Ascending"))

\* C2 amended: Descending mirrors the keys of Ascending position by position,
\* records with equal keys keep their input order in both directions, and the
\* result is the exact reverse of Ascending when no two records of the input
\* have equal keys under the field.
DescendingMirrorsKeys ==
    (sort_called /\ sort_direction = "Descending")
        => LET asc == sort_books(sort_input, sort_field, "Ascending")
               mirrored == Reverse(asc)
           IN  /\ is_permutation(sort_output, sort_input)
               /\ \A i \in 1..Len(sort_output) :
                     field_order(sort_output[i], mirrored[i], sort_field) = "Equal"
               /\ keeps_input_order(sort_output, sort_input, sort_field)
               /\ keeps_input_order(asc, sort_input, sort_field)
               /\ ~has_equal_keys(sort_input, sort_field) => sort_output = mirrored

\* A Descending sort of an input with equal keys that is not the reverse of
\* the Ascending sort.
DescendingWithEqualKeys ==
    /\ sort_called
    /\ sort_direction = "Descending"
    /\ has_equal_keys(sort_input, sort_field)
    /\ sort_output # Reverse(sort_books(sort_input, sort_field, "Ascending"))

\* C3: sort_books is stable for every field and both directions: the output
\* is the input reordered by the comparator, and any two records that compare
\* equal under the field stand in the output in their input order.
SortIsStable ==
    sort_called
        => /\ is_permutation(sort_output, sort_input)
           /\ \A i, j \in 1..Len(sort_output) :
                 i < j => compare_books(sort_output[i], sort_output[j],
                                        sort_field, sort_direction) # "Greater"
           /\ keeps_input_order(sort_output, sort_input, sort_field)

\* A sort of MaxLen records that moved a record while two others have equal keys.
StableSortReordered ==
    /\ sort_called
    /\ Len(sort_input) = MaxLen
    /\ has_equal_keys(sort_input, sort_field)
    /\ sort_output # sort_input

\* ---- the Books list: search, sort direction, reloads, deletes that change the store
NextList ==
    \/ Runtime
    \/ TabSelectedBooks
    \/ SearchQueryChanged \/ PerformSearch \/ ClearSearch
    \/ SortDirectionSelected
    \/ ConfirmDeleteBook \/ CancelDeleteBook \/ DeleteBook \/ BookDeleted

SpecList == InitApp({FullDb}) /\ [][NextList]_vars

\* update() has just handled a successful BooksLoaded.
reload_handled == last.msg.kind = "BooksLoaded" /\ last.msg.result.ok

records_of(v) == {v[i] : i \in 1..Len(v)}

\* C4 as stated: the result of a load-books request that was superseded (a
\* later request's result has been handled already) does not replace the
\* records of the books collection.
SupersededReloadIsDropped ==
    [][ (BooksLoaded /\ last'.stale /\ last'.msg.result.ok)
            => records_of(app'.books) = records_of(app.books) ]_vars

\* ---- deleting: confirmations and deletes of both domains, calls that fail
NextDelete ==
    \/ Runtime \/ FailTask
    \/ TabSelected
    \/ ConfirmDeleteBook \/ CancelDeleteBook \/ DeleteBook \/ BookDeleted
    \/ ConfirmDeleteAuthor \/ CancelDeleteAuthor \/ DeleteAuthor \/ AuthorDeleted

SpecDelete == InitApp({SmallDb}) /\ [][NextDelete]_vars

delete_ops == {"delete_book", "delete_author"}
delete_kinds == {"DeleteBook", "DeleteAuthor"}

\* C5: a delete request for an id is issued only while the mode is
\* ConfirmDelete with that id: the views offer DeleteBook/DeleteAuthor only in
\* that mode and with its id, the list rows offer only the confirmation, and
\* only a DeleteBook/DeleteAuthor message makes update() issue a delete.
DeleteOnlyWhileConfirming ==
    /\ \A m \in view(app) :
          m.kind \in delete_kinds => (app.mode[1] = "ConfirmDelete" /\ app.mode[2] = m.id)
    /\ \A i \in 1..Len(app.books) :
          \E m \in create_books_list(app.books) :
              m.kind = "ConfirmDeleteBook" /\ m.id = app.books[i].book.id
    /\ last.msg.kind \in delete_kinds
          => /\ last.mode[1] = "ConfirmDelete"
             /\ last.mode[2] = last.msg.id
             /\ Len(last.cmds) = 1
             /\ last.cmds[1].op \in delete_ops
             /\ last.cmds[1].id = last.msg.id
    /\ (\E k \in 1..Len(last.cmds) : last.cmds[k].op \in delete_ops)
          => last.msg.kind \in delete_kinds

\* The delete of book 1 was issued from its confirmation.
DeleteIssuedFromConfirmation ==
    /\ last.msg.kind = "DeleteBook"
    /\ last.mode = ModeConfirmDelete(1, Book1.title)
    /\ last.cmds = <<TaskDeleteBook(1)>>
    /\ app.mode = ModeConfirmDelete(1, Book1.title)

\* C6: when update() has handled the completion of a delete, of a book or of
\* an author, the mode is View and exactly one reload of that list was
\* issued, whether the delete succeeded or failed; after a failure the error
\* slot holds its message.
DeleteCompletionReturnsToList ==
    /\ last.msg.kind = "BookDeleted"
          => /\ app.mode = ModeView
             /\ last.cmds = <<TaskGetBooks>>
             /\ ~last.msg.result.ok => app.error = Some(last.msg.result.err)
    /\ last.msg.kind = "AuthorDeleted"
          => /\ app.mode = ModeView
             /\ last.cmds = <<TaskGetAuthors>>
             /\ ~last.msg.result.ok => app.error = Some(last.msg.result.err)

\* The completion of a delete that failed was handled while its confirmation
\* was open.
FailedDeleteHandled ==
    /\ last.msg.kind = "BookDeleted"
    /\ ~last.msg.result.ok
    /\ last.mode[1] = "ConfirmDelete"
    /\ app.mode = ModeView
    /\ db.books = <<Book1>>

\* ---- saving a book: the form is opened, its price edited, Save pressed
NextSave ==
    \/ Runtime \/ LoadAuthors
    \/ AddBookMode \/ EditBookMode
    \/ BookPriceChanged
    \/ SaveBook \/ BookSaved

SpecSave == InitApp({SmallDb}) /\ [][NextSave]_vars

\* The price field holds text that is not a number.
invalid_price(s) == s.book_price # <<>> /\ ~IsSome(parse_f32(s.book_price))

write_ops == {"create_book", "update_book", "delete_book",
              "create_author", "update_author", "delete_author"}

\* C7: Save with a non-empty price field that does not parse is rejected
\* locally: update() issues no request, the tasks in flight and the store are
\* as before, the mode and every form field are unchanged, and the error
\* slot holds the validation message.
InvalidPriceRejectedLocally ==
    [][ (SaveBook /\ invalid_price(app))
            => /\ last'.cmds = <<>>
               /\ tasks' = tasks
               /\ db' = db
               /\ app'.mode = app.mode
               /\ app'.mode \in {ModeAdd, ModeEdit}
               /\ app' = [app EXCEPT !.error = Some("Invalid price format")]
      ]_vars

\* Save was pressed in the Add form with the price "x" and was rejected.
InvalidPriceSaveHandled ==
    /\ last.msg.kind = "SaveBook"
    /\ last.mode = ModeAdd
    /\ app.book_price = <<120>>
    /\ last.cmds = <<>>
    /\ app.error = Some("Invalid price format")

\* ---- the target of a save: forms of both domains are opened, saved and left
\* while the save is in flight
NextTarget ==
    \/ Runtime \/ LoadAuthors
    \/ TabSelected
    \/ AddBookMode \/ EditBookMode \/ ViewBookMode \/ SaveBook \/ BookSaved
    \/ AddAuthorMode \/ EditAuthorMode \/ ViewAuthorMode \/ SaveAuthor \/ AuthorSaved

SpecTarget == InitApp({FullDb}) /\ [][NextTarget]_vars

\* The store after the persistence call that task t names, as the task was
\* built.
store_after(t) ==
    CASE t.op = "create_book" -> create_book(db, t.new_book).db
      [] t.op = "update_book" -> update_book(db, t.id, t.new_book).db
      [] t.op = "create_author" -> create_author(db, t.new_author).db
      [] t.op = "update_author" -> update_author(db, t.id, t.new_author).db
      [] OTHER -> db

\* C8: the create-or-update decision and the target id of a save are taken
\* from the current record when Save is handled; a request in flight keeps
\* them whatever update() handles meanwhile, and when its future runs it
\* writes the record the request names.
SaveTargetFixedAtSave ==
    [][ /\ (SaveBook /\ last'.cmds # <<>>)
            => /\ Len(last'.cmds) = 1
               /\ IF IsSome(app.current_book)
                  THEN /\ last'.cmds[1].op = "update_book"
                       /\ last'.cmds[1].id = Unwrap(app.current_book).book.id
                  ELSE last'.cmds[1].op = "create_book"
        /\ SaveAuthor
            => /\ Len(last'.cmds) = 1
               /\ IF IsSome(app.current_author)
                  THEN /\ last'.cmds[1].op = "update_author"
                       /\ last'.cmds[1].id = Unwrap(app.current_author).Id
                  ELSE last'.cmds[1].op = "create_author"
        /\ \A i \in 1..Len(tasks) :
              (tasks[i].res = None /\ tasks[i].task.op \in write_ops)
                  => \E j \in 1..Len(tasks') : tasks'[j].task = tasks[i].task
        /\ RunTask
            => \E i \in 1..Len(tasks) :
                  /\ tasks[i].res = None
                  /\ tasks' = [tasks EXCEPT ![i].res = tasks'[i].res]
                  /\ IsSome(tasks'[i].res)
                  /\ db' = store_after(tasks[i].task)
      ]_vars

\* The update of book 1 has run and was written to book 1 while the form
\* holds book 2.
SaveRanWhileFormMovedOn ==
    /\ IsSome(app.current_book)
    /\ Unwrap(app.current_book).book.id = 2
    /\ \E i \in 1..Len(tasks) :
          /\ tasks[i].task.op = "update_book"
          /\ tasks[i].task.id = 1
          /\ IsSome(tasks[i].res)
          /\ Unwrap(tasks[i].res).result.ok
          /\ Unwrap(tasks[i].res).result.val.id = 1

\* ---- leaving a form: forms are opened, edited and cancelled; Save is never pressed
NextCancel ==
    \/ Runtime \/ LoadAuthors
    \/ TabSelected
    \/ AddBookMode \/ EditBookMode \/ ViewBookMode
    \/ BookTitleChanged \/ BookPriceChanged \/ BookBoughtDateChanged \/ BookFinishedDateChanged
    \/ EditAuthorMode \/ ViewAuthorMode \/ AuthorNameChanged

SpecCancel == InitApp({SmallDb}) /\ [][NextCancel]_vars

\* The transient fields of the book form.
form_fields(s) ==
    [title |-> s.book_title, price |-> s.book_price, bought |-> s.book_bought_date,
     finished |-> s.book_finished_date, author |-> s.selected_author]

empty_form == [title |-> <<>>, price |-> <<>>, bought |-> <<>>, finished |-> <<>>, author |-> None]

\* C9 as stated: after Cancel in the Add form the mode is View and every
\* transient field of the book form is empty.
CancelEmptiesForm ==
    (last.msg.kind = "ViewBookMode" /\ last.mode = ModeAdd)
        => (app.mode = ModeView /\ form_fields(app) = empty_form)

\* C9 amended: Cancel in the Add form returns to View with no current book
\* and leaves the transient fields as they were edited; they are emptied when
\* the Add form is entered.
CancelKeepsFormUntilAdd ==
    [][ /\ (ViewBookMode /\ app.mode = ModeAdd)
            => /\ app'.mode = ModeView
               /\ app'.current_book = None
               /\ form_fields(app') = form_fields(app)
        /\ AddBookMode
            => /\ app'.mode = ModeAdd
               /\ app'.current_book = None
               /\ form_fields(app') = empty_form
      ]_vars

\* Cancel was handled in the Add form after its fields were edited.
CancelledEditedAddForm ==
    /\ last.msg.kind = "ViewBookMode"
    /\ last.mode = ModeAdd
    /\ app.mode = ModeView
    /\ app.book_title # <<>>
    /\ app.book_price # <<>>
    /\ app.book_bought_date # <<>>
    /\ app.book_finished_date # <<>>

\* C10: opening a record for edit, changing fields and cancelling issues no
\* create, update or delete request: the store is as it was, no task in
\* flight writes, and the Cancel of either form returns to View and issues
\* exactly the reload of its list.
CancelEditIssuesOnlyReload ==
    /\ db = SmallDb
    /\ \A i \in 1..Len(tasks) : tasks[i].task.op \notin write_ops
    /\ \A k \in 1..Len(last.cmds) : last.cmds[k].op \notin write_ops
    /\ (last.msg.kind = "ViewBookMode" /\ last.mode = ModeEdit)
          => (app.mode = ModeView /\ last.cmds = <<TaskGetBooks>>)
    /\ (last.msg.kind = "ViewAuthorMode" /\ last.mode = ModeEdit)
          => (app.mode = ModeView /\ last.cmds = <<TaskGetAuthors>>)

\* Cancel was handled in the Edit form of author 1 after its name was changed.
CancelledEditedAuthor ==
    /\ last.msg.kind = "ViewAuthorMode"
    /\ last.mode = ModeEdit
    /\ app.author_name # UnwrapOr(Author1.Name, <<>>)
    /\ app.mode = ModeView
    /\ db.authors = <<Author1>>


\* ---- C11
\* The one mode field serves the tab on display: the other domain's completions
\* are those that arrive while its tab is not the current one.
foreign_completion ==
    \/ (BookSaved \/ BookDeleted) /\ app.current_tab = "Authors"
    \/ (AuthorSaved \/ AuthorDeleted) /\ app.current_tab = "Books"

\* C11: the Books domain and the Authors domain each have their own mode; a
\* save or delete completion of one domain leaves the mode of the domain on
\* display as it was.  BookshelfApp holds a single mode for both domains, so
\* this statement does not hold of the code.
DomainModesIndependent ==
    [][foreign_completion => app'.mode = app.mode]_vars

\* ---- C12
\* C12: a search performed with an empty query does not filter: the search is
\* inactive afterwards, the filtered collection is dropped, the books
\* collection is the one it was and no request is issued.
EmptySearchShortCircuits ==
    [][(PerformSearch /\ app.search_query = <<>>) =>
          /\ ~app'.is_searching
          /\ app'.filtered_books = None
          /\ app'.books = app.books
          /\ last'.cmds = <<>>]_vars

\* An empty query was searched for over a loaded list while a search was active.
EmptySearchEndedSearch ==
    /\ last.msg.kind = "PerformSearch"
    /\ app.search_query = <<>>
    /\ last.searching
    /\ ~app.is_searching
    /\ app.books # <<>>

\* ---- C13
\* C13: the filtered collection is present only while the search is active;
\* after ClearSearch, and after a search with an empty query, the search is
\* inactive and the filtered collection is absent.
FilteredOnlyWhileSearching ==
    /\ ~app.is_searching => app.filtered_books = None
    /\ (\/ last.msg.kind = "ClearSearch"
        \/ last.msg.kind = "PerformSearch" /\ app.search_query = <<>>)
           => ~app.is_searching /\ app.filtered_books = None

\* ClearSearch was handled while a search over a loaded list was active.
ClearedActiveSearch ==
    /\ last.msg.kind = "ClearSearch"
    /\ last.searching
    /\ app.books # <<>>
    /\ app.filtered_books = None

\* ---- C18
\* The added timestamps of a vector, in its order.
added_of(v) == [i \in 1..Len(v) |-> v[i].book.added]

\* The ids of a vector, in its order.
ids_of(v) == [i \in 1..Len(v) |-> v[i].book.id]

\* C18: under DateAdded, Ascending puts every record with a timestamp before
\* every record without one and the timestamps in increasing order; Descending
\* puts the records without a timestamp first and the timestamps in
\* decreasing order.  Records 1 (2024-01-01), 2 (none) and 4 (2023-06-01)
\* come out as 4, 1, 2 Ascending and as 2, 1, 4 Descending.
DateAddedOrdering ==
    (sort_called /\ sort_field = "DateAdded")
        => LET a == added_of(sort_output)
               n == Len(sort_output)
           IN  /\ sort_direction = "Ascending" =>
                     \A i, j \in 1..n : i < j =>
                        /\ a[i] = None => a[j] = None
                        /\ (a[i] # None /\ a[j] # None) => seq_cmp(a[i][1], a[j][1]) # "Greater"
               /\ sort_direction = "Descending" =>
                     \A i, j \in 1..n : i < j =>
                        /\ a[j] = None => a[i] = None
                        /\ (a[i] # None /\ a[j] # None) => seq_cmp(a[i][1], a[j][1]) # "Less"
               /\ {ids_of(sort_input)[i] : i \in 1..Len(sort_input)} = {1, 2, 4} =>
                     ids_of(sort_output) = IF sort_direction = "Ascending"
                                           THEN <<4, 1, 2>> ELSE <<2, 1, 4>>

\* Records 1, 2 and 4, handed over in that order, sorted by DateAdded Descending.
DateAddedExampleSorted ==
    /\ sort_called
    /\ sort_field = "DateAdded"
    /\ sort_direction = "Descending"
    /\ ids_of(sort_input) = <<1, 2, 4>>
    /\ added_of(sort_input) = <<Some(T2024), None, Some(<<2023, 6, 1, 0, 0, 0>>)>>
    /\ ids_of(sort_output) = <<2, 1, 4>>

\* ---- PerformSearch over a loaded list
\* The records on the list when the search is made: a title in mixed case, a
\* book without author, an author without name, and the prices 41.99, 5.00
\* and 15.00.
SearchBooks ==
    {BookWithAuthor(BookModel(1, <<65, 98>>, Some(4199), None, None, Some(T2024), Some(1)),
                    Some(Author1)),                                       \* "Ab", 41.99, by "c"
     BookWithAuthor(BookModel(2, <<120>>, Some(500), None, None, None, None),
                    None),                                                \* "x", 5.00
     BookWithAuthor(BookModel(3, <<99>>, None, None, None, None, Some(2)),
                    Some(AuthorModel(2, None))),                          \* "c", author unnamed
     BookWithAuthor(BookModel(4, <<121>>, Some(1500), None, None, None, Some(3)),
                    Some(AuthorModel(3, Some(<<97, 66>>))))}              \* "y", 15.00, by "aB"

\* The rows of Authors.
SearchAuthors == <<Author1, AuthorModel(2, None), AuthorModel(3, Some(<<97, 66>>))>>

\* app.books: at most MaxLen of the records, in the order a sort left them.
SearchVecs ==
    {sort_books(v, f, d) :
        v \in UNION {{w \in [1..n -> SearchBooks] : \A i, j \in 1..n : w[i] = w[j] => i = j} :
                        n \in 0..MaxLen},
        f \in SortFields, d \in SortDirections}

\* What is typed into the search box: "41", "5", "abc", "B", "c", ".".
SearchQueries == {<<52, 49>>, <<53>>, <<97, 98, 99>>, <<66>>, <<99>>, <<46>>}

\* The Books tab with a loaded list, a sort selected and a query typed.
InitSearch ==
    /\ \E v \in SearchVecs, q \in SearchQueries, f \in SortFields, d \in SortDirections :
          /\ app = [new_app EXCEPT !.books = v, !.authors = SearchAuthors,
                                   !.search_query = q,
                                   !.sort_field = f, !.sort_direction = d]
          /\ db = [books |-> [i \in 1..Len(v) |-> v[i].book], authors |-> SearchAuthors]
    /\ pool = TRUE
    /\ tasks = <<>>
    /\ last = NoCall
    /\ fn_in = None
    /\ fn_out = None

SpecSearch == InitSearch /\ [][PerformSearch]_vars

\* ---- properties of the search
\* The query as the filter compares it.
search_key == to_lowercase(app.search_query)

search_done ==
    /\ last.msg.kind = "PerformSearch"
    /\ app.search_query # <<>>
    /\ app.current_tab = "Books"

title_has(b, q) == contains(to_lowercase(b.book.title), q)

author_has(b, q) ==
    /\ b.author # None
    /\ b.author[1].Name # None
    /\ contains(to_lowercase(b.author[1].Name[1]), q)

\* The price predicate on a price in hundredths.
price_has(p, q) ==
    IF parse_f32(q) # None
    THEN \/ starts_with(f32_to_string(p), f32_to_string(parse_f32(q)[1]))
         \/ p = parse_f32(q)[1]
    ELSE contains(f32_to_string(p), q)

\* C14: after a search with a non-empty query on the Books tab the filtered
\* collection holds exactly the books whose title has the query, or whose
\* author's name has it, or whose price matches it, text compared without
\* regard to case; a book without author, or with an author without name, is
\* there only on account of its title or its price.
FilteredIsUnionOfMatches ==
    search_done =>
        /\ app.filtered_books # None
        /\ records_of(app.filtered_books[1]) =
              {b \in records_of(app.books) :
                  \/ title_has(b, search_key)
                  \/ author_has(b, search_key)
                  \/ b.book.price # None /\ price_has(b.book.price[1], search_key)}
        /\ Len(app.filtered_books[1]) = Cardinality(records_of(app.filtered_books[1]))
        /\ \A b \in records_of(app.filtered_books[1]) :
              (b.author = None \/ b.author[1].Name = None)
                  => \/ title_has(b, search_key)
                     \/ b.book.price # None /\ price_has(b.book.price[1], search_key)

\* A search in upper case that kept a book for its author's name and left out
\* the book without author and the one whose author has no name.
SearchLeftOutAuthorless ==
    /\ search_done
    /\ app.search_query = <<66>>
    /\ Len(app.books) = 3
    /\ \E b \in records_of(app.books) : b.author = None
    /\ \E b \in records_of(app.books) : b.author # None /\ b.author[1].Name = None
    /\ {b.book.id : b \in records_of(app.filtered_books[1])} = {4}

\* ---- C15
\* The books of the list that neither their title nor their author brings
\* into the result: the price predicate alone decides on them.
decided_by_price ==
    {b \in records_of(app.books) :
        b.book.price # None /\ ~title_has(b, search_key) /\ ~author_has(b, search_key)}

kept_by_search(b) == b \in records_of(app.filtered_books[1])

\* C15: when the query reads as a number a priced book matches by price iff
\* the decimal string of its price starts with the decimal string of that
\* number, or the price equals it; when the query does not read as a number,
\* iff the string of the price contains the query.  Of the prices 41.99 and
\* 5.00, "41" matches only the first, "5" only the second, "abc" neither.
PricePredicate ==
    search_done =>
        \A b \in decided_by_price :
            LET p == b.book.price[1]
                str == f32_to_string(p)
                num == parse_f32(search_key)
            IN  /\ num # None =>
                      (kept_by_search(b) <=>
                          (starts_with(str, f32_to_string(num[1])) \/ p = num[1]))
                /\ num = None => (kept_by_search(b) <=> contains(str, search_key))
                /\ (search_key = <<52, 49>> /\ p \in {4199, 500}) => (kept_by_search(b) <=> p = 4199)
                /\ (search_key = <<53>> /\ p \in {4199, 500}) => (kept_by_search(b) <=> p = 500)
                /\ (search_key = <<97, 98, 99>> /\ p \in {4199, 500}) => ~kept_by_search(b)

\* "5" was searched for in a list with the prices 41.99, 5.00 and 15.00, and
\* only the book priced 5.00 was kept.
SearchedPriceFive ==
    /\ search_done
    /\ app.search_query = <<53>>
    /\ {b.book.price[1] : b \in decided_by_price} = {4199, 500, 1500}
    /\ {b.book.price[1] : b \in {c \in decided_by_price : kept_by_search(c)}} = {500}

\* ---- C16
\* The books the filter keeps, in the order of the books collection.
filter_result ==
    LET keep(b) == \/ title_has(b, search_key)
                   \/ author_has(b, search_key)
                   \/ b.book.price # None /\ price_has(b.book.price[1], search_key)
    IN  SelectSeq(app.books, keep)

\* C16: immediately after a search with a non-empty query the filtered
\* collection is sort_books, with the selected field and direction, of what
\* the filter kept.
SearchThenSort ==
    search_done =>
        app.filtered_books = Some(sort_books(filter_result, app.sort_field, app.sort_direction))

\* A search whose result the sort had to reorder.
SearchResultReordered ==
    /\ search_done
    /\ Len(filter_result) >= 2
    /\ app.filtered_books # Some(filter_result)

SortFieldSelected == Booted /\ User("SortFieldSelected")

\* ---- reloads of the Books list: the sort is chosen, a book is created
NextReload ==
    \/ Runtime \/ LoadAuthors
    \/ SortFieldSelected \/ SortDirectionSelected
    \/ AddBookMode \/ SaveBook \/ BookSaved

SpecReload == InitApp({SmallDb}) /\ [][NextReload]_vars

\* ---- C17
\* C17: after a successful reload of the books with the loaded list L the
\* books collection is a permutation of L in the order of the selected sort
\* field and direction.
ReloadInstallsSorted ==
    reload_handled =>
        /\ is_permutation(app.books, last.msg.result.val)
        /\ \A i, j \in 1..Len(app.books) :
              i < j => compare_books(app.books[i], app.books[j],
                                     app.sort_field, app.sort_direction) # "Greater"

\* The reload after a book was created: the store returned the new book last
\* and the list shows it first.
CreatedBookAtSortedPosition ==
    /\ reload_handled
    /\ Len(db.books) = 2
    /\ [i \in 1..2 |-> last.msg.result.val[i].book.id] = <<1, 2>>
    /\ [i \in 1..2 |-> app.books[i].book.id] = <<2, 1>>

\* ---- C20
\* C20: when a successful save completion is handled the mode becomes Viewing
\* and exactly one reload is issued, of the books for a book save and of the
\* authors for an author save.
SaveCompletionReturnsToList ==
    /\ (last.msg.kind = "BookSaved" /\ last.msg.result.ok)
          => app.mode = ModeView /\ last.cmds = <<TaskGetBooks>>
    /\ (last.msg.kind = "AuthorSaved" /\ last.msg.result.ok)
          => app.mode = ModeView /\ last.cmds = <<TaskGetAuthors>>

\* The save of an edited book completed while its form was open.
SavedBookFormClosed ==
    /\ last.msg.kind = "BookSaved"
    /\ last.msg.result.ok
    /\ last.mode = ModeEdit
    /\ app.current_tab = "Books"
    /\ app.mode = ModeView

ViewAuthorDetails == Booted /\ User("ViewAuthorDetails")
AuthorBooksLoaded == tasks # <<>> /\ Completion("AuthorBooksLoaded")

\* ---- failed loads and saves, with a search and a sort that leave the books
\* collection in an earlier order
NextError ==
    \/ Runtime \/ FailTask \/ LoadAuthors
    \/ TabSelected
    \/ SearchQueryChanged \/ PerformSearch \/ SortDirectionSelected
    \/ ViewAuthorDetails \/ AuthorBooksLoaded
    \/ AddBookMode \/ SaveBook \/ BookSaved
    \/ EditAuthorMode \/ SaveAuthor \/ AuthorSaved

SpecError == InitApp({FullDb}) /\ [][NextError]_vars

\* ---- C19
\* The completion of a load or of a save that carries an error is handled.
error_completion ==
    /\ BooksLoaded \/ AuthorsLoaded \/ AuthorBooksLoaded \/ BookSaved \/ AuthorSaved
    /\ ~last'.msg.result.ok

stored_book(d, id) == {d.books[i] : i \in {k \in 1..Len(d.books) : d.books[k].id = id}}

\* C21: an update request issued from Editing carries the added timestamp of
\* the record being edited as it is, and no write changes the added value of
\* a book that the store already holds; only a create request sets it, to the
\* current time.  A record without added timestamp gets the current time
\* from handle_save_book, so this statement does not hold of the code.
EditsCarryAddedUnmodified ==
    [][/\ (SaveBook /\ app.current_book # None /\ last'.cmds # <<>>) =>
              /\ last'.cmds[1].op = "update_book"
              /\ last'.cmds[1].new_book.added = app.current_book[1].book.added
       /\ \A id \in book_ids(db) \cap book_ids(db') :
              \A b \in stored_book(db, id), c \in stored_book(db', id) : c.added = b.added]_vars

\* ---- the dates of the book form: typed, well-formed or not, and saved
NextDates ==
    \/ Runtime \/ LoadAuthors
    \/ AddBookMode
    \/ BookBoughtDateChanged \/ BookFinishedDateChanged
    \/ SaveBook \/ BookSaved

SpecDates == InitApp({SmallDb}) /\ [][NextDates]_vars

\* ---- C22
\* A date field that holds text which the timestamp pattern does not read.
unreadable_date(str) == str # <<>> /\ parse_datetime(str) = None

\* C22: a bought or finished date field that is not empty and does not parse
\* does not block the save: the request is issued with that field absent, and
\* nothing, the error slot included, changes in the application state.
UnreadableDateSavedAsAbsent ==
    [][(/\ SaveBook
        /\ ~invalid_price(app)
        /\ unreadable_date(app.book_bought_date) \/ unreadable_date(app.book_finished_date)) =>
          /\ Len(last'.cmds) = 1
          /\ last'.cmds[1].op \in {"create_book", "update_book"}
          /\ unreadable_date(app.book_bought_date) => last'.cmds[1].new_book.bought = None
          /\ unreadable_date(app.book_finished_date) => last'.cmds[1].new_book.finished = None
          /\ ~unreadable_date(app.book_bought_date) =>
                last'.cmds[1].new_book.bought = parse_datetime(app.book_bought_date)
          /\ app' = app]_vars

\* A form was saved with "1-2" as bought date and a well-formed finished date:
\* the request holds no bought date and the finished date.
SavedWithUnreadableBoughtDate ==
    /\ last.msg.kind = "SaveBook"
    /\ app.book_bought_date = <<49, 45, 50>>
    /\ app.book_finished_date # <<>>
    /\ Len(last.cmds) = 1
    /\ last.cmds[1].new_book.bought = None
    /\ last.cmds[1].new_book.finished = Some(<<2024, 1, 2, 3, 4, 5>>)
    /\ app.error = None

loaded_in_flight(kind) ==
    {tasks[i].res[1] : i \in {k \in 1..Len(tasks) :
        tasks[k].res # None /\ tasks[k].res[1].kind = kind /\ tasks[k].res[1].result.ok}}

\* update called with message a and then with message b.
after_both(a, b) ==
    LET env == [now |-> CHOOSE t \in Clock : TRUE, init_ok |-> TRUE, pool |-> pool]
        first == update(app, a, env)
        second == update(first.app, b, env)
    IN  [app |-> second.app, cmds |-> first.cmds \o second.cmds]

\* C24: the completions of the two loads may be delivered in either order: a
\* successful BooksLoaded followed by a successful AuthorsLoaded leaves the
\* application state that the opposite order leaves.
LoadCompletionsCommute ==
    \A b \in loaded_in_flight("BooksLoaded"), a \in loaded_in_flight("AuthorsLoaded") :
        after_both(b, a) = after_both(a, b)

\* Both loads of the start have run and neither completion is delivered yet.
StartupLoadsBothCompleted ==
    /\ last.msg.kind = "Initialize"
    /\ Len(tasks) = 2
    /\ loaded_in_flight("BooksLoaded") # {}
    /\ loaded_in_flight("AuthorsLoaded") # {}
    /\ \E b \in loaded_in_flight("BooksLoaded") : b.result.val # <<>>

\* ---- C25
\* C25: Cancel in ConfirmingDelete returns the mode to Viewing and does
\* nothing else: no request is issued, and the collections, the error slot
\* and the store are as they were.
CancelDeleteHasNoSideEffect ==
    [][(CancelDeleteBook \/ CancelDeleteAuthor) =>
          /\ app.mode[1] = "ConfirmDelete"
          /\ app' = [app EXCEPT !.mode = ModeView]
          /\ last'.cmds = <<>>
          /\ tasks' = tasks
          /\ db' = db]_vars

\* The confirmation of a book's delete was cancelled over a loaded list.
CancelledDeleteConfirmation ==
    /\ last.msg.kind = "CancelDeleteBook"
    /\ last.mode[1] = "ConfirmDelete"
    /\ app.mode = ModeView
    /\ app.books # <<>>
    /\ last.cmds = <<>>

\* ---- C26
\* C26: AddBookMode from Viewing empties every transient field of the book
\* form (title, price, both dates, selected author, current record) and
\* issues exactly one load of the authors: the handler returns the one task
\* that emits LoadAuthors, and LoadAuthors issues the one get_authors request.
AddBookModeClearsForm ==
    /\ last.msg.kind = "AddBookMode" =>
          /\ app.mode = ModeAdd
          /\ form_fields(app) = empty_form
          /\ app.current_book = None
          /\ last.cmds = <<TaskEmit(Msg("LoadAuthors"))>>
    /\ last.msg.kind = "LoadAuthors" => last.cmds = <<TaskGetAuthors>>

\* The form for a new book was opened from the list of a loaded store.
AddFormOpenedFromList ==
    /\ last.msg.kind = "AddBookMode"
    /\ last.mode = ModeView
    /\ app.mode = ModeAdd
    /\ app.books # <<>>
    /\ form_fields(app) = empty_form
    /\ last.cmds = <<TaskEmit(Msg("LoadAuthors"))>>

\* ---- C27
\* The book form is on display.
book_form_shown == app.current_tab = "Books" /\ app.mode[1] \in {"Add", "Edit"}

\* C27: when the load of the authors asked for by AddBookMode or EditBookMode
\* has completed successfully, the candidate list of the selector is the
\* loaded list of authors (nothing else is in flight then).  No handler writes author_dropdown.options, which
\* stays the empty vector of BookshelfApp::new, so this statement does not
\* hold of the code.
CandidatesAreLoadedAuthors ==
    (book_form_shown /\ last.msg.kind = "AuthorsLoaded" /\ last.msg.result.ok /\ tasks = <<>>)
        => app.author_dropdown.options = last.msg.result.val

\* ---- C28
\* C28: whenever the book form is shown the selected item of the selector is
\* the selected author of the form.  handle_edit_book_mode sets
\* selected_author and leaves author_dropdown as it is, so this statement does
\* not hold of the code.
SelectorMatchesForm ==
    book_form_shown => app.author_dropdown.selected = app.selected_author

\* ---- SearchableDropdown on its own
\* Every state of a SearchableDropdown<AuthorModel> over two authors: open or
\* closed, with or without search term, with or without selection.
DropdownStates ==
    [options : {<<>>, <<Author1>>, <<Author1, AuthorModel(2, None)>>},
     selected : {None, Some(Author1), Some(AuthorModel(2, None))},
     search_term : {<<>>} \cup TermInputs,
     is_open : BOOLEAN]

InitDropdown ==
    /\ app = new_app
    /\ pool = FALSE
    /\ db = [books |-> <<>>, authors |-> <<>>]
    /\ tasks = <<>>
    /\ last = NoCall
    /\ fn_in \in {Some([dropdown |-> d, item |-> a]) :
                     d \in DropdownStates, a \in {Author1, AuthorModel(2, None)}}
    /\ fn_out = None

\* dropdown.select(item)
CallSelect ==
    /\ fn_in # None
    /\ fn_out = None
    /\ fn_out' = Some([op |-> "select",
                       dropdown |-> dropdown_select(Unwrap(fn_in).dropdown, Unwrap(fn_in).item)])
    /\ UNCHANGED <<app, pool, db, tasks, last, fn_in>>

\* dropdown.toggle()
CallToggle ==
    /\ fn_in # None
    /\ fn_out = None
    /\ fn_out' = Some([op |-> "toggle", dropdown |-> dropdown_toggle(Unwrap(fn_in).dropdown)])
    /\ UNCHANGED <<app, pool, db, tasks, last, fn_in>>

\* The book form around the selector of the call: Message::AuthorSearchChanged
\* reaches dropdown.search(term) through update().
form_around(d, a) ==
    [new_app EXCEPT !.mode = ModeAdd, !.author_dropdown = d, !.selected_author = Some(a)]

\* update(Message::AuthorSearchChanged(term)), that is dropdown.search(term)
CallSearch ==
    /\ fn_in # None
    /\ fn_out = None
    /\ \E term \in {<<>>} \cup TermInputs :
          LET s0 == form_around(Unwrap(fn_in).dropdown, Unwrap(fn_in).item)
              r == update(s0, MsgWith("AuthorSearchChanged", [value |-> term]),
                          [now |-> T2024, init_ok |-> TRUE, pool |-> TRUE])
          IN  fn_out' = Some([op |-> "search", term |-> term, cmds |-> r.cmds,
                              dropdown |-> r.app.author_dropdown, form |-> r.app])
    /\ UNCHANGED <<app, pool, db, tasks, last, fn_in>>

\* view_author_dropdown(dropdown, ..): the candidates it lists
CallViewAuthorDropdown ==
    /\ fn_in # None
    /\ fn_out = None
    /\ fn_out' = Some([op |-> "view", dropdown |-> Unwrap(fn_in).dropdown,
                       visible |-> dropdown_filtered_options(Unwrap(fn_in).dropdown)])
    /\ UNCHANGED <<app, pool, db, tasks, last, fn_in>>

SpecDropdown ==
    InitDropdown /\ [][CallSelect \/ CallToggle \/ CallSearch \/ CallViewAuthorDropdown]_vars

\* ---- properties of the selector
selector_before == fn_in[1].dropdown
selector_after == fn_out[1].dropdown
selector_called(op) == fn_in # None /\ fn_out # None /\ fn_out[1].op = op

\* C29: select(item), from any state of the selector, leaves the selection
\* equal to item, the widget closed and the search term empty.
SelectClosesAndClears ==
    selector_called("select") =>
        /\ selector_after.selected = Some(fn_in[1].item)
        /\ ~selector_after.is_open
        /\ selector_after.search_term = <<>>
        /\ selector_after.options = selector_before.options

\* select was called on an open selector with a search term and another
\* author selected.
SelectedFromOpenSelector ==
    /\ selector_called("select")
    /\ selector_before.is_open
    /\ selector_before.search_term # <<>>
    /\ selector_before.selected # None
    /\ selector_before.selected # Some(fn_in[1].item)
    /\ selector_after.selected = Some(fn_in[1].item)

\* C30: toggle() flips the open flag; when it closes the widget the search
\* term becomes empty, when it opens the widget the term is left as it was;
\* the selection and the candidates are unchanged in both cases.
ToggleFlipsAndClearsOnClose ==
    selector_called("toggle") =>
        /\ selector_after.is_open = ~selector_before.is_open
        /\ ~selector_after.is_open => selector_after.search_term = <<>>
        /\ selector_after.is_open => selector_after.search_term = selector_before.search_term
        /\ selector_after.selected = selector_before.selected
        /\ selector_after.options = selector_before.options

\* toggle closed an open selector that held a search term and a selection.
ToggleClosedSelectorWithTerm ==
    /\ selector_called("toggle")
    /\ selector_before.is_open
    /\ selector_before.search_term # <<>>
    /\ selector_before.selected # None
    /\ ~selector_after.is_open
    /\ selector_after.search_term = <<>>

\* C31: search(term) sets the live search term to term and changes nothing
\* else: the selection, the open flag and the candidates of the selector are
\* as before, and so is every other field of the form around it, the form's
\* selected author included; no task is issued.
SearchSetsOnlyTheTerm ==
    selector_called("search") =>
        /\ selector_after = [selector_before EXCEPT !.search_term = fn_out[1].term]
        /\ fn_out[1].form =
              [form_around(selector_before, fn_in[1].item) EXCEPT
                  !.author_dropdown.search_term = fn_out[1].term]
        /\ fn_out[1].form.selected_author = Some(fn_in[1].item)
        /\ fn_out[1].cmds = <<>>

\* search replaced the term of an open selector that held a selection and
\* two candidates.
SearchedOpenSelector ==
    /\ selector_called("search")
    /\ selector_before.is_open
    /\ selector_before.selected # None
    /\ Len(selector_before.options) = 2
    /\ selector_before.search_term # <<>>
    /\ selector_after.search_term # selector_before.search_term
    /\ selector_after.search_term # <<>>

\* ---- C32
\* models.rs impl Display for AuthorModel: the label of a candidate, the
\* placeholder when it has no name.
author_display(a) == UnwrapOr(a.Name, UnnamedAuthor)

label_has(a, term) == contains(to_lowercase(author_display(a)), to_lowercase(term))

\* C32: the visible candidates are exactly the candidates whose display label
\* contains the live term, compared case-insensitively, in candidate-list order
\* (the whole list when the term is empty); a candidate without a name counts
\* with the placeholder label shown for it.
VisibleAreLabelMatches ==
    selector_called("view") =>
        fn_out[1].visible =
            SelectSeq(selector_before.options, LAMBDA a : label_has(a, selector_before.search_term))

\* ---- the details of an author: opened, left and opened for another author
\* A store with a second author, who has no book.
TwoAuthorsDb == [books |-> <<Book1>>, authors |-> <<Author1, AuthorModel(2, Some(<<100>>))>>]

NextDetails ==
    \/ Runtime
    \/ TabSelected
    \/ ViewAuthorDetails \/ ViewAuthorMode \/ AuthorBooksLoaded

SpecDetails == InitApp({TwoAuthorsDb}) /\ [][NextDetails]_vars

\* ---- C33
\* C33: once every pending completion is delivered, the books shown in the
\* details of author A are books whose author is A, never the books loaded
\* for an author viewed before.
DetailsShowOwnBooks ==
    (app.mode = ModeViewDetails /\ IsSome(app.current_author) /\ tasks = <<>>) =>
        \A i \in 1..Len(app.author_books) :
            app.author_books[i].book.AuthorFK = Some(Unwrap(app.current_author).Id)

\* ---- C34
\* C34: at every reachable state the displayed collection (the filtered books
\* while a search is active, the books otherwise) is in the order of the
\* current sort field and direction.
DisplayedIsSorted ==
    \A i, j \in 1..Len(books_to_display(app)) :
        i < j => compare_books(books_to_display(app)[i], books_to_display(app)[j],
                               app.sort_field, app.sort_direction) # "Greater"

\* ---- C35
\* A save or delete completion is delivered right after a form was opened: the
\* request was issued from a form the user has left since.
late_completion ==
    /\ BookSaved \/ BookDeleted \/ AuthorSaved \/ AuthorDeleted
    /\ last.msg.kind \in {"AddBookMode", "EditBookMode", "AddAuthorMode", "EditAuthorMode"}
    /\ app.mode \in {ModeAdd, ModeEdit}

\* C35: a save or delete completion delivered after the user has left the
\* form that issued it and has opened a new Add or Edit form leaves the mode
\* as it is: the new form stays open with its fields.
LateCompletionKeepsNewForm ==
    [][late_completion =>
          /\ app'.mode = app.mode
          /\ form_fields(app') = form_fields(app)
          /\ app'.author_name = app.author_name]_vars

\* ---- C36
\* Save is pressed again in the Add form: the call of update() before this
\* one was the Save that issued the create, so its completion has not been
\* delivered.
repeated_save ==
    /\ SaveBook
    /\ last.msg.kind = "SaveBook"
    /\ last.cmds # <<>>
    /\ last.cmds[1].op = "create_book"

\* C36: one visit to the Add form causes at most one create request: Save
\* pressed again before the completion of the first Save is delivered issues
\* no second create.
OneCreatePerVisit ==
    [][repeated_save => last'.cmds = <<>>]_vars

\* ---- the current record: forms and details of both domains are opened,
\* saved and left by the tabs
NextSlots ==
    \/ Runtime \/ LoadAuthors
    \/ TabSelected
    \/ AddBookMode \/ EditBookMode \/ SaveBook \/ BookSaved
    \/ AddAuthorMode \/ EditAuthorMode \/ SaveAuthor \/ AuthorSaved
    \/ ViewAuthorDetails \/ AuthorBooksLoaded

SpecSlots == InitApp({SmallDb}) /\ [][NextSlots]_vars

\* ---- C37
\* The current-record slot of the domain on display, as an Option of the id.
slot_id(s) ==
    IF s.current_tab = "Books"
    THEN (IF IsSome(s.current_book) THEN Some(Unwrap(s.current_book).book.id) ELSE None)
    ELSE (IF IsSome(s.current_author) THEN Some(Unwrap(s.current_author).Id) ELSE None)

\* C37: in Add mode the current-record slot of the domain on display is
\* empty; Edit mode is entered with the slot holding the record passed, and
\* the slot keeps it while the mode stays Edit.  So a Save from Add that
\* issues a request issues a create, and a Save from Edit issues an update
\* for the id of the record the edit was opened with.
ModeDeterminesSlot ==
    [][/\ app'.mode = ModeAdd => slot_id(app') = None
       /\ EditBookMode => app'.mode = ModeEdit /\ app'.current_book = Some(last'.msg.book)
       /\ EditAuthorMode => app'.mode = ModeEdit /\ app'.current_author = Some(last'.msg.author)
       /\ (app.mode = ModeEdit /\ app'.mode = ModeEdit) =>
              /\ app'.current_book = app.current_book
              /\ app'.current_author = app.current_author
              /\ slot_id(app') # None
       /\ ((SaveBook \/ SaveAuthor) /\ last'.cmds # <<>>) =>
              /\ Len(last'.cmds) = 1
              /\ app.mode = ModeAdd =>
                    last'.cmds[1].op \in {"create_book", "create_author"}
              /\ app.mode = ModeEdit =>
                    /\ last'.cmds[1].op \in {"update_book", "update_author"}
                    /\ Some(last'.cmds[1].id) = slot_id(app)
      ]_vars

\* The Add form of the authors was opened after the details of an author had
\* set the current author, and the Save in it issued a create.
SavedFromAddAfterDetails ==
    /\ last.msg.kind = "SaveAuthor"
    /\ last.mode = ModeAdd
    /\ last.cmds # <<>>
    /\ last.cmds[1].op = "create_author"
    /\ \E i \in 1..Len(tasks) : tasks[i].task.op = "get_books_by_author"

\* ---- the selector in use: built by SearchableDropdown::new and driven by
\* the messages its view emits
\* fn_out holds the selector and the operation that produced it, fn_in the
\* selector before that operation.
selector_now == Unwrap(fn_out).dropdown

InitWidget ==
    /\ app = new_app
    /\ pool = FALSE
    /\ db = [books |-> <<>>, authors |-> <<>>]
    /\ tasks = <<>>
    /\ last = NoCall
    /\ fn_in = None
    /\ fn_out \in {Some([op |-> "new", dropdown |-> dropdown_new(o, s)]) :
                      o \in {<<>>, <<Author1>>, <<Author1, AuthorModel(2, None)>>,
                             <<AuthorModel(2, Some(<<110>>)), Author1>>},
                      s \in {None, Some(Author1)}}

\* The header button: Message::ToggleAuthorDropdown
WidgetToggle ==
    /\ fn_out # None
    /\ Msg("ToggleAuthorDropdown") \in view_author_dropdown(selector_now)
    /\ fn_in' = Some([dropdown |-> selector_now])
    /\ fn_out' = Some([op |-> "toggle", dropdown |-> dropdown_toggle(selector_now)])
    /\ UNCHANGED <<app, pool, db, tasks, last>>

\* The search input, shown while the selector is open: Message::AuthorSearchChanged
WidgetSearch ==
    /\ fn_out # None
    /\ \E m \in view_author_dropdown(selector_now) :
          /\ m.kind = "AuthorSearchChanged"
          /\ fn_in' = Some([dropdown |-> selector_now])
          /\ fn_out' = Some([op |-> "search", term |-> m.value,
                             dropdown |-> dropdown_search(selector_now, m.value)])
    /\ UNCHANGED <<app, pool, db, tasks, last>>

\* A listed candidate, shown while the selector is open: Message::BookAuthorSelected
WidgetSelect ==
    /\ fn_out # None
    /\ \E m \in view_author_dropdown(selector_now) :
          /\ m.kind = "BookAuthorSelected"
          /\ fn_in' = Some([dropdown |-> selector_now, item |-> m.author])
          /\ fn_out' = Some([op |-> "select",
                             dropdown |-> dropdown_select(selector_now, m.author)])
    /\ UNCHANGED <<app, pool, db, tasks, last>>

SpecWidget == InitWidget /\ [][WidgetToggle \/ WidgetSearch \/ WidgetSelect]_vars

error_handled ==
    \/ /\ last'.msg.kind \in {"BooksLoaded", "AuthorsLoaded", "AuthorBooksLoaded", "BookSaved",
                              "AuthorSaved", "BookDeleted", "AuthorDeleted"}
       /\ ~last'.msg.result.ok
    \/ last'.msg.kind = "Initialize"
    \/ last'.msg.kind = "SaveBook" /\ invalid_price(app)

UserInput == TabSelected \/ AddBookMode \/ AddAuthorMode \/ SaveAuthor

Deliver ==
    \/ RunTask \/ FailTask
    \/ Initialize \/ LoadAuthors \/ BooksLoaded \/ AuthorsLoaded \/ AuthorSaved

NextDrain == UserInput \/ Deliver

\* The executor runs every spawned future to its end and the runtime hands
\* every produced message to update(): a step of Deliver that stays possible
\* is taken.  Nothing obliges the user to act.
SpecDrain == InitApp({SmallDb}) /\ [][NextDrain]_vars /\ WF_vars(Deliver)

\* ---- C40
\* The kinds of message update() passes to itself while it handles a message
\* of this kind.
self_dispatches(kind) ==
    CASE kind \in {"Initialize", "TabSelected"} -> {"LoadBooks", "LoadAuthors"}
      [] kind \in {"SortFieldSelected", "SortDirectionSelected", "PerformSearch", "BooksLoaded"} ->
            {"ApplySorting"}
      [] kind \in {"ViewBookMode", "BookSaved", "BookDeleted"} -> {"LoadBooks"}
      [] kind \in {"ViewAuthorMode", "AuthorSaved", "AuthorDeleted"} -> {"LoadAuthors"}
      [] OTHER -> {}

\* The longest chain of nested calls of update() a message of this kind starts.
RECURSIVE chain_length(_)
chain_length(kind) ==
    IF self_dispatches(kind) = {} THEN 1
    ELSE 1 + CHOOSE n \in 1..8 :
                 /\ \E k \in self_dispatches(kind) : chain_length(k) = n
                 /\ \A k \in self_dispatches(kind) : chain_length(k) <= n

\* C40: every call of update() ends after a bounded chain of nested calls of
\* itself (two deep at most), and once the user stops acting the tasks in
\* flight are run and delivered until none is pending, for good.
PendingRequestsDrain ==
    /\ [][chain_length(last'.msg.kind) <= 2]_vars
    /\ <>[][~UserInput]_vars => <>[](tasks = <<>>)

\* An author was created from the Add form and the reload its completion
\* issued has been delivered: nothing is pending.
SaveChainDrained ==
    /\ last.msg.kind = "AuthorsLoaded"
    /\ last.msg.result.ok
    /\ Len(db.authors) = 2
    /\ Len(app.authors) = 2
    /\ tasks = <<>>
=============================================================================
